---------------------------- MODULE Spec2Model ----------------------------
(***************************************************************************)
(* A model of the translation matching pipeline: the XML processor         *)
(* (element extraction and text reinsertion), the JSON record store, and   *)
(* the pipeline manager's matching jobs.                                   *)
(*                                                                         *)
(* Texts are sequences of tokens: a token is a word or the blank " ".      *)
(* The length of a text is the sum of its tokens' lengths.                 *)
(***************************************************************************)
EXTENDS Integers, Sequences, FiniteSets, TLC

VARIABLES
    xmlDoc,      \* the parsed reference document (DOMParser's tree)
    xmlUnits,    \* the elements array extractElements returned, <<>> before
    xmlExtracted,\* whether extractElements has run
    xmlWrite,    \* the last updateElementText: the element before and after
    xmlAgain,    \* the elements array of a second extractElements, if one ran
    database,    \* the tables of the record store
    nextId,      \* the id counter of the record store
    lastRun,     \* the request that ran last: a job's calls, decisions, writes,
                 \* or the documents a registration processed
    approvals,   \* the paragraph matches approveMatch returned for, each as
                 \* it was when approveMatch returned
    scoring,     \* two texts and two filenames, with the scores computed
                 \* for them
    marker       \* a string of the extraction tool, with the text blocks
                 \* parsed from it

xmlVars == <<xmlDoc, xmlUnits, xmlExtracted, xmlWrite, xmlAgain>>

pipelineVars == <<database, nextId, lastRun, approvals>>

scoreVars == <<scoring>>

markerVars == <<marker>>

vars ==
    <<xmlDoc, xmlUnits, xmlExtracted, xmlWrite, xmlAgain, database, nextId,
      lastRun, approvals, scoring, marker>>

(***************************************************************************)
(* Bounds of the model.                                                    *)
(***************************************************************************)
MaxXmlNodes == 4

(***************************************************************************)
(* Helpers.                                                                *)
(***************************************************************************)
\* body(value), the value computed once.
With(value, body(_)) == CHOOSE result \in {body(v) : v \in {value}} : TRUE

\* The least number of a set of numbers that is not empty.
Least(numbers) ==
    With(numbers, LAMBDA set : CHOOSE i \in set : \A j \in set : i <= j)

\* The sum of a sequence of numbers, by halves.
RECURSIVE Sum(_)
Sum(numbers) ==
    With(numbers, LAMBDA s :
        IF Len(s) = 0 THEN 0
        ELSE IF Len(s) = 1 THEN s[1]
        ELSE Sum(SubSeq(s, 1, Len(s) \div 2))
             + Sum(SubSeq(s, Len(s) \div 2 + 1, Len(s))))

\* The concatenation of a sequence of sequences (or of strings, from
\* empty), by halves.
RECURSIVE Concat(_, _)
Concat(parts, empty) ==
    With(parts, LAMBDA s :
        IF Len(s) = 0 THEN empty
        ELSE IF Len(s) = 1 THEN s[1]
        ELSE Concat(SubSeq(s, 1, Len(s) \div 2), empty)
             \o Concat(SubSeq(s, Len(s) \div 2 + 1, Len(s)), empty))

(***************************************************************************)
(* Texts.  A text is a sequence of tokens; a token is a string, and the    *)
(* blank is a token of its own.                                            *)
(***************************************************************************)
TextLength(text) == Sum([i \in DOMAIN text |-> Len(text[i])])

IsBlank(token) == token = " "

RECURSIVE trimStart(_)
trimStart(text) ==
    IF text # <<>> /\ IsBlank(Head(text)) THEN trimStart(Tail(text)) ELSE text

RECURSIVE trimEnd(_)
trimEnd(text) ==
    IF text # <<>> /\ IsBlank(text[Len(text)])
    THEN trimEnd(SubSeq(text, 1, Len(text) - 1))
    ELSE text

trim(text) == trimEnd(trimStart(text))

(***************************************************************************)
(* DOM nodes.  nodeType 1 is an element, 3 a text node.  An absent         *)
(* attribute and an empty one both read as "" (falsy in the code).         *)
(***************************************************************************)
Attrs(id, class) == [id |-> id, class |-> class]

TextNode(value) ==
    [nodeType |-> 3, nodeName |-> "#text", attributes |-> Attrs("", ""),
     nodeValue |-> value, childNodes |-> <<>>]

Element(tag, attrs, kids) ==
    [nodeType |-> 1, nodeName |-> tag, attributes |-> attrs,
     nodeValue |-> <<>>, childNodes |-> kids]

LongText == <<"Hello", " ", "world">>
ShortText == <<"Hi">>

XmlTexts == {LongText, ShortText}

XmlLabels ==
    { [tag |-> "p",    attrs |-> Attrs("", "")],
      [tag |-> "div",  attrs |-> Attrs("", "")],
      [tag |-> "span", attrs |-> Attrs("", "hl")],
      [tag |-> "doc",  attrs |-> Attrs("", "")] }

RECURSIVE XmlTree(_), XmlForest(_)
XmlTree(n) ==
    IF n = 1
    THEN {TextNode(v) : v \in XmlTexts}
         \cup {Element(l.tag, l.attrs, <<>>) : l \in XmlLabels}
    ELSE {Element(l.tag, l.attrs, f) : l \in XmlLabels, f \in XmlForest(n - 1)}

XmlForest(n) ==
    IF n = 0
    THEN {<<>>}
    ELSE UNION { { <<t>> \o f : t \in XmlTree(k), f \in XmlForest(n - k) }
                 : k \in 1..n }

\* The unit of the round-trip example: <p>This is <span class="hl">important</span> text.</p>
RoundTripUnit ==
    Element("p", Attrs("", ""),
        << TextNode(<<"This", " ", "is", " ">>),
           Element("span", Attrs("", "hl"), <<TextNode(<<"important">>)>>),
           TextNode(<<" ", "text.">>) >>)

RoundTripTranslation == <<"Esto", " ", "es", " ", "vital", " ", "realmente">>

\* Two sections of one paragraph each:
\* <doc><div id="intro"><p>Hello world</p></div><div><p>Hello again</p></div></doc>
TwoSections ==
    Element("doc", Attrs("", ""),
        << Element("div", Attrs("intro", ""),
               <<Element("p", Attrs("", ""), <<TextNode(LongText)>>)>>),
           Element("div", Attrs("", ""),
               <<Element("p", Attrs("", ""),
                         <<TextNode(<<"Hello", " ", "again">>)>>)>>) >>)

\* The parser never yields two adjacent text nodes.
RECURSIVE WellFormed(_)
WellFormed(node) ==
    \A i \in DOMAIN node.childNodes :
        /\ WellFormed(node.childNodes[i])
        /\ i > 1 => ~(node.childNodes[i].nodeType = 3
                      /\ node.childNodes[i - 1].nodeType = 3)

\* The documents of up to maxNodes nodes.
XmlDocs(maxNodes) ==
    {t \in UNION {XmlTree(n) : n \in 1..maxNodes} :
        t.nodeType = 1 /\ WellFormed(t)}
    \cup {RoundTripUnit, TwoSections}

Translations == {RoundTripTranslation, <<"Hola">>}

(***************************************************************************)
(* XmlProcessor: extraction.                                               *)
(***************************************************************************)
\* String.prototype.includes on the class names and words of the model.
includes(s, sub) ==
    \/ s = sub
    \/ <<s, sub>> \in {<<"main-content", "content">>, <<"brl-title", "title">>,
                       <<"brl-doc-author", "author">>, <<"cause.", "cause">>}

\* The names and words of the model are lower case but for these.
toLowerCase(s) ==
    CASE s = "God" -> "god"
      [] s = "Hidden" -> "hidden"
      [] s = "Words" -> "words"
      [] s = ".PDF" -> ".pdf"
      [] OTHER -> s

RECURSIVE getTextContent(_)
RECURSIVE getTextContentOfChildren(_)
getTextContent(node) ==
    IF node.nodeType = 3
    THEN node.nodeValue
    ELSE getTextContentOfChildren(node.childNodes)

getTextContentOfChildren(kids) ==
    IF kids = <<>>
    THEN <<>>
    ELSE (IF Head(kids).nodeType = 3
          THEN Head(kids).nodeValue
          ELSE getTextContent(Head(kids)))
         \o getTextContentOfChildren(Tail(kids))

isLeafNode(node) ==
    \A i \in DOMAIN node.childNodes :
        node.childNodes[i].nodeType = 1 =>
            toLowerCase(node.childNodes[i].nodeName)
                \in {"a", "span", "strong", "em", "i", "b", "br"}

hasSignificantText(node) == TextLength(trim(getTextContent(node))) > 5

isExtractableElement(node) ==
    /\ node.nodeType = 1
    /\ \/ toLowerCase(node.nodeName) \in
             {"p", "div", "span", "h1", "h2", "h3", "h4", "h5", "h6",
              "li", "td", "th", "blockquote", "pre", "article", "section"}
       \/ /\ node.attributes.class # ""
          /\ \E cls \in {"brl-title", "brl-doc-author", "brl-doc-byline",
                          "brl-text", "content", "paragraph"} :
                includes(node.attributes.class, cls)
       \/ isLeafNode(node) /\ hasSignificantText(node)

RECURSIVE preserveElementStructure(_)
RECURSIVE preserveChildren(_)
preserveElementStructure(node) ==
    [tagName |-> node.nodeName,
     attributes |-> node.attributes,
     children |-> preserveChildren(node.childNodes)]

preserveChildren(kids) ==
    IF kids = <<>>
    THEN <<>>
    ELSE (IF Head(kids).nodeType = 1
          THEN <<preserveElementStructure(Head(kids))>>
          ELSE IF trim(Head(kids).nodeValue) # <<>>
               THEN <<[type |-> "text", content |-> Head(kids).nodeValue]>>
               ELSE <<>>)
         \o preserveChildren(Tail(kids))

getElementType(node) ==
    LET tagName == toLowerCase(node.nodeName)
        className == node.attributes.class
    IN  IF tagName \in {"h1", "h2", "h3", "h4", "h5", "h6"} THEN "heading"
        ELSE IF tagName = "p" \/ (className # "" /\ includes(className, "paragraph"))
             THEN "paragraph"
        ELSE IF tagName = "li" THEN "list-item"
        ELSE IF className # "" /\ includes(className, "title") THEN "title"
        ELSE IF className # "" /\ includes(className, "author") THEN "author"
        ELSE IF className # "" /\ includes(className, "quote") THEN "quote"
        ELSE "text"

\* An id that counts the elements the processor has extracted before.
countedXPathId(node, siblings, idx, path) ==
    path \o "[" \o ToString(Len(xmlUnits) + idx) \o "]"

\* siblings are the parent's childNodes and idx the node's place among them.
generateXPathId(node, siblings, idx, path) ==
    LET position ==
            1 + Cardinality({i \in 1..(idx - 1) :
                    siblings[i].nodeType = 1
                    /\ siblings[i].nodeName = node.nodeName})
        withPosition == path \o "[" \o ToString(position) \o "]"
    IN  IF node.attributes.class # ""
        THEN withPosition \o "[@class='" \o node.attributes.class \o "']"
        ELSE withPosition

\* The units pushed for the subtree of siblings[idx], in the order pushed.
\* where is the node's position in the document: the child indices from
\* the root.
RECURSIVE extractTextElements(_, _, _, _)
RECURSIVE extractFromChildren(_, _, _, _)
extractTextElements(siblings, idx, currentPath, where) ==
    LET node == siblings[idx]
        path == IF currentPath # ""
                THEN currentPath \o "/" \o node.nodeName
                ELSE node.nodeName
        nodeId == IF node.attributes.id # ""
                  THEN node.attributes.id
                  ELSE generateXPathId(node, siblings, idx, path)
        textContent == getTextContent(node)
        own == IF isExtractableElement(node)
                  /\ textContent # <<>>
                  /\ TextLength(trim(textContent)) > 5
               THEN << [id |-> nodeId,
                        text |-> trim(textContent),
                        structure |-> preserveElementStructure(node),
                        type |-> getElementType(node),
                        xpath |-> path,
                        where |-> where] >>
               ELSE <<>>
    IN  own \o extractFromChildren(node.childNodes, 1, path, where)

extractFromChildren(kids, i, path, where) ==
    IF i > Len(kids)
    THEN <<>>
    ELSE (IF kids[i].nodeType = 1
          THEN extractTextElements(kids, i, path, Append(where, i))
          ELSE <<>>)
         \o extractFromChildren(kids, i + 1, path, where)

extractElements(doc) == extractTextElements(<<doc>>, 1, "", <<>>)

(***************************************************************************)
(* XmlProcessor: writing a translation into an element.                    *)
(***************************************************************************)
hasFormattingChildren(element) ==
    \E i \in DOMAIN element.childNodes :
        /\ element.childNodes[i].nodeType = 1
        /\ toLowerCase(element.childNodes[i].nodeName)
               \in {"span", "strong", "em", "i", "b", "a"}

\* getTextNodes: the text nodes under a node, in document order.
RECURSIVE getTextNodes(_)
RECURSIVE getTextNodesOfChildren(_)
getTextNodes(node) ==
    IF node.nodeType = 3
    THEN <<node>>
    ELSE getTextNodesOfChildren(node.childNodes)

getTextNodesOfChildren(kids) ==
    IF kids = <<>>
    THEN <<>>
    ELSE getTextNodes(Head(kids)) \o getTextNodesOfChildren(Tail(kids))

\* The node with its k-th, (k+1)-th, ... text nodes (document order) given
\* the values values[k], values[k+1], ...
RECURSIVE setTextNodeValues(_, _, _)
RECURSIVE setTextNodeValuesOfChildren(_, _, _)
setTextNodeValues(node, values, k) ==
    IF node.nodeType = 3
    THEN [node EXCEPT !.nodeValue = values[k]]
    ELSE [node EXCEPT !.childNodes =
                          setTextNodeValuesOfChildren(node.childNodes, values, k)]

setTextNodeValuesOfChildren(kids, values, k) ==
    IF kids = <<>>
    THEN <<>>
    ELSE <<setTextNodeValues(Head(kids), values, k)>>
         \o setTextNodeValuesOfChildren(Tail(kids), values,
                                        k + Len(getTextNodes(Head(kids))))

\* The textContent setter of xmldom: every child is removed, and a text
\* node is appended unless the data is the empty string.
setTextContent(element, data) ==
    [element EXCEPT !.childNodes =
        IF data = <<>> THEN <<>> ELSE <<TextNode(data)>>]

\* A write that adds the text to what is there.
appendElementText(element, newText) ==
    [element EXCEPT !.childNodes = Append(@, TextNode(newText))]

\* A write that sets the first text node and leaves the others as they are.
firstTextNodeOnly(element, newText) ==
    LET textNodes == getTextNodes(element)
    IN  IF Len(textNodes) > 0
        THEN setTextNodeValues(element,
                 [i \in 1..Len(textNodes) |->
                     IF i = 1 THEN newText ELSE textNodes[i].nodeValue], 1)
        ELSE element

updateElementText(element, newText) ==
    IF ~hasFormattingChildren(element)
    THEN setTextContent(element, newText)
    ELSE LET textNodes == getTextNodes(element)
         IN  IF Len(textNodes) > 0
             THEN setTextNodeValues(element,
                      [i \in 1..Len(textNodes) |->
                          IF i = 1 THEN newText ELSE <<>>], 1)
             ELSE element

\* The node at a position of the document.
RECURSIVE nodeAt(_, _)
nodeAt(node, where) ==
    IF where = <<>> THEN node
    ELSE nodeAt(node.childNodes[Head(where)], Tail(where))

\* The positions of the elements under a node, the node included, whose
\* id attribute is elementId, in document order.
RECURSIVE elementsWithId(_, _, _)
RECURSIVE elementsWithIdOfChildren(_, _, _, _)
elementsWithId(node, where, elementId) ==
    IF node.nodeType # 1 THEN <<>>
    ELSE (IF node.attributes.id = elementId THEN <<where>> ELSE <<>>)
         \o elementsWithIdOfChildren(node.childNodes, 1, where, elementId)

elementsWithIdOfChildren(kids, i, where, elementId) ==
    IF i > Len(kids) THEN <<>>
    ELSE elementsWithId(kids[i], Append(where, i), elementId)
         \o elementsWithIdOfChildren(kids, i + 1, where, elementId)

\* doc.getElementById(elementId): the position of the element, in a
\* sequence; <<>> stands for null.
getElementById(doc, elementId) ==
    With(elementsWithId(doc, <<>>, elementId), LAMBDA found :
        IF found = <<>> THEN <<>> ELSE <<Head(found)>>)

\* findElementByXPath returns null, whatever the path is.
findElementByXPath(node, xpath) == <<>>

findElementById(doc, elementId) ==
    With(getElementById(doc, elementId), LAMBDA elementWithId :
        IF elementWithId # <<>> THEN elementWithId
        ELSE findElementByXPath(doc, elementId))

(***************************************************************************)
(* Properties of the XML processor, checked under SpecXml.                 *)
(***************************************************************************)
IsProperPrefix(a, b) == Len(a) < Len(b) /\ SubSeq(b, 1, Len(a)) = a

\* The element nodes of a subtree, with their names, attributes, order and
\* nesting, the text nodes left out.
RECURSIVE ElementSkeleton(_)
RECURSIVE ElementSkeletonOfChildren(_)
ElementSkeleton(node) ==
    [nodeName |-> node.nodeName,
     attributes |-> node.attributes,
     elements |-> ElementSkeletonOfChildren(node.childNodes)]

ElementSkeletonOfChildren(kids) ==
    IF kids = <<>>
    THEN <<>>
    ELSE (IF Head(kids).nodeType = 1
          THEN <<ElementSkeleton(Head(kids))>>
          ELSE <<>>)
         \o ElementSkeletonOfChildren(Tail(kids))

IsFormattingRun(node) ==
    /\ node.nodeType = 1
    /\ toLowerCase(node.nodeName) \in {"span", "strong", "em", "i", "b", "a"}

\* C1: extraction non-overlap.  No extracted unit's source node is an
\* ancestor of another extracted unit's source node.
C1_ExtractionNonOverlap ==
    \A i, j \in DOMAIN xmlUnits :
        ~IsProperPrefix(xmlUnits[i].where, xmlUnits[j].where)

\* C2: round-trip formatting.  After a non-empty translation is written
\* into a unit with inline-formatting runs, every run that held text is
\* still there with its tag name and attributes and wraps a non-empty part
\* of the translation; in the example unit the span wraps "Esto".
C2_RoundTripFormatting ==
    (xmlWrite.written
     /\ hasFormattingChildren(xmlWrite.before)
     /\ xmlWrite.newText # <<>>) =>
        /\ \A i \in DOMAIN xmlWrite.before.childNodes :
              LET run == xmlWrite.before.childNodes[i]
              IN  (IsFormattingRun(run) /\ getTextContent(run) # <<>>) =>
                    \E j \in DOMAIN xmlWrite.after.childNodes :
                        LET kept == xmlWrite.after.childNodes[j]
                        IN  /\ kept.nodeType = 1
                            /\ kept.nodeName = run.nodeName
                            /\ kept.attributes = run.attributes
                            /\ getTextContent(kept) # <<>>
        /\ (xmlWrite.before = RoundTripUnit
            /\ xmlWrite.newText = RoundTripTranslation) =>
              \E j \in DOMAIN xmlWrite.after.childNodes :
                  /\ xmlWrite.after.childNodes[j].nodeName = "span"
                  /\ xmlWrite.after.childNodes[j].attributes = Attrs("", "hl")
                  /\ getTextContent(xmlWrite.after.childNodes[j]) = <<"Esto">>

\* C3: writing a translation changes text only.  The element nodes inside
\* the unit (names, attributes, order, nesting) are the same after
\* updateElementText as before.
C3_WriteChangesTextOnly ==
    xmlWrite.written =>
        ElementSkeleton(xmlWrite.after) = ElementSkeleton(xmlWrite.before)

(***************************************************************************)
(* The record store (database/index.js): six tables of records kept in     *)
(* insertion order and one id counter.  An SQL text is the sequence of its *)
(* tokens, "\n" standing for a line break of the source's template         *)
(* literal.  Timestamps (created_at, updated_at, processed_at) are left    *)
(* out of the records.                                                     *)
(***************************************************************************)
NL == "\n"

\* A column no INSERT or UPDATE has set yet reads undefined.
Undefined == "undefined"
NoNumber == -1

TableNames ==
    {"documents", "document_matches", "text_blocks", "xml_elements",
     "paragraph_matches", "pipeline_jobs"}

EmptyDatabase == [t \in TableNames |-> <<>>]

\* The columns the pipeline writes, per table, all undefined.
BlankRecord(tableName) ==
    CASE tableName = "documents" ->
            [id |-> 0, filename |-> Undefined, type |-> Undefined,
             path |-> Undefined, author |-> Undefined, status |-> Undefined,
             language |-> Undefined]
      [] tableName = "text_blocks" ->
            [id |-> 0, document_id |-> NoNumber, block_index |-> NoNumber,
             text_content |-> <<>>, language |-> Undefined]
      [] tableName = "xml_elements" ->
            [id |-> 0, document_id |-> NoNumber, element_id |-> Undefined,
             text_content |-> <<>>, element_type |-> Undefined]
      [] tableName = "document_matches" ->
            [id |-> 0, pdf_id |-> NoNumber, xml_id |-> NoNumber,
             similarity_score |-> NoNumber, confidence |-> Undefined,
             manual_review |-> Undefined]
      [] tableName = "paragraph_matches" ->
            [id |-> 0, text_block_id |-> NoNumber, xml_element_id |-> NoNumber,
             similarity_score |-> NoNumber, confidence |-> Undefined,
             manual_review |-> Undefined, approved |-> Undefined]
      [] tableName = "pipeline_jobs" ->
            [id |-> 0, job_type |-> Undefined, current_item |-> Undefined,
             status |-> Undefined, error_message |-> Undefined,
             progress |-> NoNumber, total_items |-> NoNumber]

\* Columns that hold numbers; every other column holds a string (or a text).
NumberColumns ==
    {"id", "document_id", "block_index", "pdf_id", "xml_id", "text_block_id",
     "xml_element_id", "similarity_score", "progress", "total_items"}

\* The /i flag of the parser's regular expressions.
IsKeyword(token, keyword) ==
    \/ token = keyword
    \/ <<token, keyword>> \in
          {<<"WHERE", "where">>, <<"SET", "set">>, <<"FROM", "from">>,
           <<"ORDER", "order">>, <<"GROUP", "group">>, <<"LIMIT", "limit">>,
           <<"UPDATE", "update">>, <<"INTO", "into">>, <<"VALUES", "values">>,
           <<"Where", "where">>}

\* The places of a keyword that is followed by a blank (not by a line break).
KeywordPlaces(sql, keyword) ==
    {i \in 1..(Len(sql) - 1) : IsKeyword(sql[i], keyword) /\ sql[i + 1] # NL}

\* The first token after place i that is not a line break, 0 if none.
NextWordPlace(sql, i) ==
    IF \E j \in (i + 1)..Len(sql) : sql[j] # NL
    THEN CHOOSE j \in (i + 1)..Len(sql) :
            sql[j] # NL /\ \A k \in (i + 1)..(j - 1) : sql[k] = NL
    ELSE 0

\* /keyword (.+)$/i : the capture runs to the end of the input, and "."
\* matches no line break: no match (<<>>) when a line break follows.
matchToEnd(sql, keyword) ==
    With({i \in KeywordPlaces(sql, keyword) :
             \A j \in (i + 1)..Len(sql) : sql[j] # NL},
         LAMBDA places :
        IF places = {} THEN <<>>
        ELSE SubSeq(sql, Least(places) + 1, Len(sql)))

\* /keyword (.+?)(?:\s+stop1|\s+stop2|...|$)/i : the shortest capture on
\* the keyword's line that is followed by one of the stop words (after
\* blanks or line breaks) or by the end of the input.
captureEnds(sql, i, stops) ==
    {j \in (i + 1)..Len(sql) :
        /\ \A k \in (i + 1)..j : sql[k] # NL
        /\ \/ j = Len(sql)
           \/ /\ NextWordPlace(sql, j) # 0
              /\ \E stop \in stops :
                    IsKeyword(sql[NextWordPlace(sql, j)], stop)}

matchLazy(sql, keyword, stops) ==
    With({i \in KeywordPlaces(sql, keyword) : captureEnds(sql, i, stops) # {}},
         LAMBDA places :
        IF places = {} THEN <<>>
        ELSE With(Least(places), LAMBDA i :
                SubSeq(sql, i + 1, Least(captureEnds(sql, i, stops)))))

\* /order by (.+?)(?:\s+limit|$)/i and /group by (.+?)(?:\s+order|...|$)/i :
\* the keyword, a blank, "by", a blank, then the shortest capture as above.
ByPlaces(sql, keyword) ==
    {i \in 2..(Len(sql) - 1) :
        /\ IsKeyword(sql[i - 1], keyword)
        /\ sql[i] \in {"BY", "by"}
        /\ sql[i + 1] # NL}

matchLazyBy(sql, keyword, stops) ==
    With({i \in ByPlaces(sql, keyword) : captureEnds(sql, i, stops) # {}},
         LAMBDA places :
        IF places = {} THEN <<>>
        ELSE With(Least(places), LAMBDA i :
                SubSeq(sql, i + 1, Least(captureEnds(sql, i, stops)))))

\* parseInt of a token of digits.
parseInt(token) ==
    CHOOSE n \in 0..100 : <<token, n>> \in {<<"10", 10>>, <<"100", 100>>}

\* /limit (\d+)/i : <<the limit>>, or <<>> when there is none.
matchLimit(sql) ==
    With({i \in KeywordPlaces(sql, "limit") : sql[i + 1] \in {"10", "100"}},
         LAMBDA places :
        IF places = {} THEN <<>> ELSE <<parseInt(sql[Least(places) + 1])>>)

\* /keyword (\w+)/i : the word after the keyword.
matchTableName(sql, keyword) ==
    With(KeywordPlaces(sql, keyword), LAMBDA places :
        IF places = {} THEN "" ELSE sql[Least(places) + 1])

\* whereClause.includes('<column> = ?'), a test on characters: a column
\* whose name ends in the searched name matches too.
EndsWith(token, name) ==
    \/ token = name
    \/ <<token, name>> \in
          {<<"document_id", "id">>, <<"pdf_id", "id">>, <<"xml_id", "id">>,
           <<"text_block_id", "id">>, <<"xml_element_id", "id">>,
           <<"job_type", "type">>, <<"element_type", "type">>}

clauseIncludes(whereClause, name) ==
    \E i \in 1..(Len(whereClause) - 2) :
        /\ EndsWith(whereClause[i], name)
        /\ whereClause[i + 1] = "="
        /\ whereClause[i + 2] = "?"

\* whereClause.includes('filename = ? AND type = ?')
clauseIncludesFilenameAndType(whereClause) ==
    \E i \in 1..(Len(whereClause) - 6) :
        /\ EndsWith(whereClause[i], "filename")
        /\ SubSeq(whereClause, i + 1, i + 6) = <<"=", "?", "AND", "type", "=", "?">>

\* /\(([^)]+)\)/ then split(',') : the column names of an INSERT.
insertColumns(sql) ==
    With({i \in 1..Len(sql) : sql[i] = "("}, LAMBDA opens :
        IF opens = {} THEN <<>>
        ELSE With({i \in (Least(opens) + 1)..Len(sql) : sql[i] = ")"},
                  LAMBDA closes :
                IF closes = {} THEN <<>>
                ELSE SelectSeq(SubSeq(sql, Least(opens) + 1, Least(closes) - 1),
                               LAMBDA token : token \notin {",", NL})))

\* setMatch[1].split(',') and update.split('='): <<column, value>> pairs.
setUpdates(sql) ==
    With(matchLazy(sql, "set", {"where"}), LAMBDA setClause :
        [u \in 1..((Len(setClause) + 1) \div 4) |->
            <<setClause[4 * u - 3], setClause[4 * u - 1]>>])

\* sqlLower.trim(): the first word of the text.
firstWord(sql) == sql[NextWordPlace(sql, 0)]

(***************************************************************************)
(* The SQL texts of the pipeline manager.  A template literal begins and   *)
(* ends with a line break; a quoted string has none.                       *)
(***************************************************************************)
SqlInsertPdfDocument ==
    <<NL, "INSERT", "INTO", "documents", "(", "filename", ",", "type", ",",
      "path", ",", "status", ")", NL,
      "VALUES", "(", "?", ",", "?", ",", "?", ",", "?", ")", NL>>

SqlInsertXmlDocument ==
    <<NL, "INSERT", "INTO", "documents", "(", "filename", ",", "type", ",",
      "path", ",", "author", ",", "status", ")", NL,
      "VALUES", "(", "?", ",", "?", ",", "?", ",", "?", ",", "?", ")", NL>>

SqlSelectDocumentById ==
    <<"SELECT", "*", "FROM", "documents", "WHERE", "id", "=", "?">>

SqlSelectExistingXml ==
    <<"SELECT", "id", ",", "status", "FROM", "documents", "WHERE",
      "filename", "=", "?", "AND", "type", "=", "?", "AND", "author", "=", "?">>

SqlSelectExistingPdf ==
    <<"SELECT", "id", ",", "status", "FROM", "documents", "WHERE",
      "filename", "=", "?", "AND", "type", "=", "?">>

\* The position_info column and its parameter are left out.
SqlInsertTextBlock ==
    <<NL, "INSERT", "INTO", "text_blocks", "(", "document_id", ",",
      "block_index", ",", "text_content", ",", "language", ")", NL,
      "VALUES", "(", "?", ",", "?", ",", "?", ",", "?", ")", NL>>

SqlCompletePdfDocument ==
    <<NL, "UPDATE", "documents", NL,
      "SET", "language", "=", "?", ",", "status", "=", "?", ",",
      "processed_at", "=", "CURRENT_TIMESTAMP", NL,
      "WHERE", "id", "=", "?", NL>>

\* The element_structure column and its parameter are left out.
SqlInsertXmlElement ==
    <<NL, "INSERT", "INTO", "xml_elements", "(", "document_id", ",",
      "element_id", ",", "text_content", ",", "element_type", ")", NL,
      "VALUES", "(", "?", ",", "?", ",", "?", ",", "?", ")", NL>>

SqlCompleteXmlDocument ==
    <<NL, "UPDATE", "documents", NL,
      "SET", "status", "=", "?", ",",
      "processed_at", "=", "CURRENT_TIMESTAMP", NL,
      "WHERE", "id", "=", "?", NL>>

SqlSelectCompletedPdfs ==
    <<NL, "SELECT", "*", "FROM", "documents", NL,
      "WHERE", "type", "=", "'pdf'", "AND", "status", "=", "'completed'", NL>>

SqlSelectCompletedXmls ==
    <<NL, "SELECT", "*", "FROM", "documents", NL,
      "WHERE", "type", "=", "'xml'", "AND", "status", "=", "'completed'", NL>>

SqlSelectTextOfBlocks ==
    <<NL, "SELECT", "text_content", "FROM", "text_blocks", NL,
      "WHERE", "document_id", "=", "?", NL>>

SqlSelectTextOfElements ==
    <<NL, "SELECT", "text_content", "FROM", "xml_elements", NL,
      "WHERE", "document_id", "=", "?", NL>>

SqlInsertDocumentMatch ==
    <<NL, "INSERT", "INTO", "document_matches", "(", "pdf_id", ",", "xml_id",
      ",", "similarity_score", ",", "confidence", ",", "manual_review", ")", NL,
      "VALUES", "(", "?", ",", "?", ",", "?", ",", "?", ",", "?", ")", NL>>

SqlSelectDocumentMatch ==
    <<NL, "SELECT", "*", "FROM", "document_matches", "WHERE", "id", "=", "?", NL>>

SqlSelectTextBlocks ==
    <<NL, "SELECT", "*", "FROM", "text_blocks", "WHERE", "document_id", "=",
      "?", NL>>

SqlSelectXmlElements ==
    <<NL, "SELECT", "*", "FROM", "xml_elements", "WHERE", "document_id", "=",
      "?", NL>>

SqlInsertParagraphMatch ==
    <<NL, "INSERT", "INTO", "paragraph_matches", NL,
      "(", "text_block_id", ",", "xml_element_id", ",", "similarity_score",
      ",", "confidence", ",", "manual_review", ")", NL,
      "VALUES", "(", "?", ",", "?", ",", "?", ",", "?", ",", "?", ")", NL>>

SqlApproveMatch ==
    <<NL, "UPDATE", "paragraph_matches", NL,
      "SET", "approved", "=", "TRUE", ",", "manual_review", "=", "FALSE", NL,
      "WHERE", "id", "=", "?", NL>>

SqlRejectMatch ==
    <<NL, "DELETE", "FROM", "paragraph_matches", "WHERE", "id", "=", "?", NL>>

SqlUpdateDocumentStatus ==
    <<NL, "UPDATE", "documents", "SET", "status", "=", "?", "WHERE", "id",
      "=", "?", NL>>

SqlCreateJob ==
    <<NL, "INSERT", "INTO", "pipeline_jobs", "(", "job_type", ",",
      "current_item", ")", NL,
      "VALUES", "(", "?", ",", "?", ")", NL>>

SqlUpdateJobStatus ==
    <<NL, "UPDATE", "pipeline_jobs", NL,
      "SET", "status", "=", "?", ",", "error_message", "=", "?", ",",
      "updated_at", "=", "CURRENT_TIMESTAMP", NL,
      "WHERE", "id", "=", "?", NL>>

SqlUpdateJobProgress ==
    <<NL, "UPDATE", "pipeline_jobs", NL,
      "SET", "progress", "=", "?", ",", "total_items", "=", "?", ",",
      "updated_at", "=", "CURRENT_TIMESTAMP", NL,
      "WHERE", "id", "=", "?", NL>>

\* The texts of GET /api/status and GET /api/documents.
SqlSelectRecentJobs ==
    <<NL, "SELECT", "*", "FROM", "pipeline_jobs", NL,
      "ORDER", "BY", "created_at", "DESC", NL,
      "LIMIT", "10", NL>>

SqlCountDocuments ==
    <<NL, "SELECT", "type", ",", "status", ",", "COUNT(*)", "as", "count", NL,
      "FROM", "documents", NL,
      "GROUP", "BY", "type", ",", "status", NL>>

SqlCountDocumentMatches ==
    <<NL, "SELECT", "confidence", ",", "COUNT(*)", "as", "count", NL,
      "FROM", "document_matches", NL,
      "GROUP", "BY", "confidence", NL>>

SqlSelectDocuments ==
    <<NL, "SELECT", "*", "FROM", "documents", NL,
      "ORDER", "BY", "created_at", "DESC", NL>>

SqlTexts ==
    {SqlInsertPdfDocument, SqlInsertXmlDocument, SqlSelectDocumentById,
     SqlSelectExistingXml, SqlSelectExistingPdf, SqlInsertTextBlock,
     SqlCompletePdfDocument, SqlInsertXmlElement, SqlCompleteXmlDocument,
     SqlSelectCompletedPdfs, SqlSelectCompletedXmls, SqlSelectTextOfBlocks,
     SqlSelectTextOfElements, SqlInsertDocumentMatch, SqlSelectDocumentMatch,
     SqlSelectTextBlocks, SqlSelectXmlElements, SqlInsertParagraphMatch,
     SqlApproveMatch, SqlRejectMatch, SqlUpdateDocumentStatus,
     SqlCreateJob, SqlUpdateJobStatus, SqlUpdateJobProgress,
     SqlSelectRecentJobs, SqlCountDocuments, SqlCountDocumentMatches,
     SqlSelectDocuments}

\* The texts are constants of the program: each is parsed once, with every
\* regular expression the handlers apply.
Parsed ==
    [sql \in SqlTexts |->
        [firstWord |-> firstWord(sql),
         into |-> matchTableName(sql, "into"),
         update |-> matchTableName(sql, "update"),
         from |-> matchTableName(sql, "from"),
         columns |-> insertColumns(sql),
         updates |-> setUpdates(sql),
         whereToEnd |-> matchToEnd(sql, "where"),
         whereOfSelect |-> matchLazy(sql, "where", {"order", "group", "limit"}),
         orderBy |-> matchLazyBy(sql, "order", {"limit"}),
         limit |-> matchLimit(sql),
         groupBy |-> matchLazyBy(sql, "group", {"order", "limit"}),
         countAll |-> \E i \in DOMAIN sql : sql[i] = "COUNT(*)"]]

\* A query parameter: a number, a string (also TRUE and FALSE), a text
\* (a token sequence: a filename, a text content) or null.
Num(n) == [kind |-> "number", value |-> n]
Str(v) == [kind |-> "string", value |-> v]
Txt(v) == [kind |-> "text", value |-> v]
Null == [kind |-> "null", value |-> "null"]

\* Columns that hold texts.
TextColumns == {"filename", "text_content"}

\* record[col] = param.  A number put into a column that holds strings is
\* written in decimal, so that the column's values stay comparable.
StoredValue(col, param) ==
    IF param.kind = "number" /\ col \notin NumberColumns
    THEN ToString(param.value)
    ELSE param.value

\* record[col] == param, JavaScript's loose equality.
LooseEquals(col, stored, param) ==
    IF param.kind = "null" THEN FALSE
    ELSE IF param.kind = "text" THEN col \in TextColumns /\ stored = param.value
    ELSE IF col \in TextColumns THEN FALSE
    ELSE IF param.kind = "number"
    THEN IF col \in NumberColumns THEN stored = param.value
         ELSE stored = ToString(param.value)
    ELSE IF col \in NumberColumns THEN ToString(stored) = param.value
    ELSE stored = param.value

RECURSIVE mapParameters(_, _, _, _)
mapParameters(record, columns, params, index) ==
    With(record, LAMBDA rec :
        IF index > Len(columns) THEN rec
        ELSE mapParameters(
                IF index <= Len(params)
                THEN [rec EXCEPT ![columns[index]] =
                                    StoredValue(columns[index], params[index])]
                ELSE rec,
                columns, params, index + 1))

\* handleInsert: the record pushed on the table; its id is the counter's
\* value, and the columns beyond the parameters stay undefined.
insertedRecord(sql, params, id) ==
    mapParameters([BlankRecord(Parsed[sql].into) EXCEPT !.id = id],
                  Parsed[sql].columns, params, 1)

handleInsert(db, id, sql, params) ==
    [db EXCEPT ![Parsed[sql].into] = Append(@, insertedRecord(sql, params, id))]

\* updates.forEach over one record: the record and the parameter index
\* afterwards.  A value that is neither ? nor CURRENT_TIMESTAMP sets nothing.
RECURSIVE applyUpdates(_, _, _, _, _, _)
applyUpdates(record, updates, u, params, paramIndex, limit) ==
    With(record, LAMBDA rec :
        IF u > Len(updates) THEN [record |-> rec, paramIndex |-> paramIndex]
        ELSE IF updates[u][2] = "?" /\ paramIndex < limit
             THEN applyUpdates(
                     [rec EXCEPT ![updates[u][1]] =
                         StoredValue(updates[u][1], params[paramIndex + 1])],
                     updates, u + 1, params, paramIndex + 1, limit)
             ELSE applyUpdates(rec, updates, u + 1, params, paramIndex, limit))

\* table.forEach of the branch without WHERE: one parameter index runs
\* over all records.
RECURSIVE updateEveryRecord(_, _, _, _, _)
updateEveryRecord(table, r, updates, params, paramIndex) ==
    With(table, LAMBDA records :
        IF r > Len(records) THEN records
        ELSE With(applyUpdates(records[r], updates, 1, params, paramIndex,
                               Len(params)),
                  LAMBDA done :
                updateEveryRecord([records EXCEPT ![r] = done.record], r + 1,
                                  updates, params, done.paramIndex)))

\* table.find(r => r.id == targetId): the place of the first such record.
findById(table, param) ==
    With({r \in 1..Len(table) : LooseEquals("id", table[r].id, param)},
         LAMBDA places :
        IF places = {} THEN 0 ELSE Least(places))

handleUpdate(db, sql, params) ==
    With(Parsed[sql].whereToEnd, LAMBDA whereClause :
    With(Parsed[sql].updates, LAMBDA updates :
    With(Parsed[sql].update, LAMBDA tableName :
    With(db[tableName], LAMBDA table :
        IF whereClause = <<>>
        THEN [db EXCEPT ![tableName] =
                          updateEveryRecord(table, 1, updates, params, 0)]
        ELSE IF clauseIncludes(whereClause, "id")
        THEN With(findById(table, params[Len(params)]), LAMBDA r :
                IF r = 0 THEN db
                ELSE [db EXCEPT ![tableName][r] =
                        applyUpdates(table[r], updates, 1, params, 0,
                                     Len(params) - 1).record])
        ELSE db))))

\* handleDelete: whether it throws 'DELETE without WHERE not allowed'.
deleteThrows(sql) == Parsed[sql].whereToEnd = <<>>

handleDelete(db, sql, params) ==
    With(Parsed[sql].whereToEnd, LAMBDA whereClause :
        IF clauseIncludes(whereClause, "id")
        THEN [db EXCEPT ![Parsed[sql].from] =
                SelectSeq(@, LAMBDA r : ~LooseEquals("id", r.id, params[1]))]
        ELSE db)

\* The filter of handleSelect, one record.
selectFilter(whereClause, record, params) ==
    IF clauseIncludes(whereClause, "id")
    THEN LooseEquals("id", record.id, params[1])
    ELSE IF clauseIncludes(whereClause, "type")
    THEN "type" \in DOMAIN record /\ LooseEquals("type", record.type, params[1])
    ELSE IF clauseIncludes(whereClause, "status")
    THEN "status" \in DOMAIN record
         /\ LooseEquals("status", record.status, params[1])
    ELSE IF clauseIncludes(whereClause, "document_id")
    THEN "document_id" \in DOMAIN record
         /\ LooseEquals("document_id", record.document_id, params[1])
    ELSE IF clauseIncludesFilenameAndType(whereClause)
    THEN /\ "filename" \in DOMAIN record
         /\ LooseEquals("filename", record.filename, params[1])
         /\ LooseEquals("type", record.type, params[2])
    ELSE TRUE

\* handleSelect, for the queries without ORDER BY, LIMIT and GROUP BY.
handleSelect(db, sql, params) ==
    With(Parsed[sql].whereOfSelect, LAMBDA whereClause :
        IF whereClause = <<>> THEN db[Parsed[sql].from]
        ELSE SelectSeq(db[Parsed[sql].from],
                       LAMBDA r : selectFilter(whereClause, r, params)))

allQuery(db, sql, params) == handleSelect(db, sql, params)

\* getQuery: the first result; <<>> stands for undefined.
getQuery(db, sql, params) ==
    With(allQuery(db, sql, params), LAMBDA results :
        IF Len(results) > 0 THEN <<results[1]>> ELSE <<>>)

\* record.created_at, the instant of the insert.  The records of the model
\* carry no clock; an insert gives the next id, and a later insert a later
\* instant, so the id stands for the instant.
createdAt(record) == record.id

\* record.similarity_score || 0
scoreOrZero(record) ==
    IF record.similarity_score = NoNumber THEN 0 ELSE record.similarity_score

\* The key the comparator of a sort reads.
sortKey(record, column) ==
    IF column = "created_at" THEN createdAt(record) ELSE scoreOrZero(record)

\* Array.prototype.sort with the comparator key(b) - key(a): descending,
\* equal keys in their former order.
RECURSIVE sortDescending(_, _)
sortDescending(table, column) ==
    IF Len(table) <= 1 THEN table
    ELSE With(sortDescending(SubSeq(table, 1, Len(table) - 1), column),
              LAMBDA sorted :
         With(Cardinality({i \in DOMAIN sorted :
                              sortKey(sorted[i], column)
                                  >= sortKey(table[Len(table)], column)}),
              LAMBDA n :
            SubSeq(sorted, 1, n) \o <<table[Len(table)]>>
                \o SubSeq(sorted, n + 1, Len(sorted))))

\* orderClause.includes('<column> DESC')
orderIncludes(orderClause, column) ==
    \E i \in 1..(Len(orderClause) - 1) :
        /\ orderClause[i] \in {column, "dm." \o column}
        /\ orderClause[i + 1] = "DESC"

\* The ORDER BY step of handleSelect on an array.
orderedTable(table, orderClause) ==
    IF orderClause = <<>> THEN table
    ELSE IF orderIncludes(orderClause, "created_at")
    THEN sortDescending(table, "created_at")
    ELSE IF orderIncludes(orderClause, "similarity_score")
    THEN sortDescending(table, "similarity_score")
    ELSE table

\* The GROUP BY step: one row for each key, in the order of first
\* appearance, with the count of the records of the key.
groupKey(record, groupBy) ==
    [i \in DOMAIN groupBy |-> ToString(record[groupBy[i]])]

groupedRows(table, groupBy) ==
    With(SelectSeq(groupBy, LAMBDA token : token # ","), LAMBDA columns :
    With([i \in DOMAIN table |-> groupKey(table[i], columns)], LAMBDA keys :
        [n \in 1..Cardinality({keys[i] : i \in DOMAIN keys}) |->
            With(CHOOSE i \in DOMAIN keys :
                    /\ \A j \in 1..(i - 1) : keys[j] # keys[i]
                    /\ Cardinality({keys[j] : j \in 1..i}) = n,
                 LAMBDA first :
                [key |-> keys[first],
                 count |-> Cardinality({j \in DOMAIN keys :
                                           keys[j] = keys[first]})])]))

\* handleSelect with its ORDER BY, LIMIT and GROUP BY steps: the rows it
\* returns and the database it leaves.  Without a WHERE match "table" is the
\* stored array itself, and sort() sorts an array in place.
handleSelectOrdered(db, sql, params) ==
    With(Parsed[sql], LAMBDA parsed :
    With(orderedTable(handleSelect(db, sql, params), parsed.orderBy),
         LAMBDA sorted :
    With(IF parsed.limit = <<>> THEN sorted
         ELSE IF parsed.limit[1] < Len(sorted)
         THEN SubSeq(sorted, 1, parsed.limit[1]) ELSE sorted,
         LAMBDA limited :
        [database |-> IF parsed.whereOfSelect = <<>>
                      THEN [db EXCEPT ![parsed.from] = sorted]
                      ELSE db,
         rows |-> IF parsed.groupBy # <<>> /\ parsed.countAll
                  THEN groupedRows(limited, parsed.groupBy)
                  ELSE limited])))

(***************************************************************************)
(* The scorers.  A score is a whole number of thousandths, rounded down;   *)
(* the texts they read are token sequences as above.                       *)
(***************************************************************************)
Ratio(m, n) == (1000 * m) \div n

Min(a, b) == With(<<a, b>>, LAMBDA n : IF n[1] < n[2] THEN n[1] ELSE n[2])
Max(a, b) == With(<<a, b>>, LAMBDA n : IF n[1] > n[2] THEN n[1] ELSE n[2])

ToSet(seq) == {seq[i] : i \in DOMAIN seq}

\* replace(/[^\w\s]/g, ' ') on one token: the tokens it becomes.  The one
\* token of the model that holds punctuation is "cause.".
stripPunctuation(token) ==
    IF token = "cause." THEN <<"cause", " ">> ELSE <<token>>

\* text.toLowerCase().replace(/[^\w\s]/g, ' ')
lowerAndStrip(text) ==
    Concat([i \in DOMAIN text |-> stripPunctuation(toLowerCase(text[i]))], <<>>)

\* replace(/\s+/g, ' '): of a run of blanks one is left.
collapseBlanks(text) ==
    With(text, LAMBDA t :
        Concat([i \in DOMAIN t |->
                   IF IsBlank(t[i]) /\ i < Len(t) /\ IsBlank(t[i + 1])
                   THEN <<>> ELSE <<t[i]>>], <<>>))

normalizeText(text) == trim(collapseBlanks(lowerAndStrip(text)))

\* text.split(' '): the words between the blanks, a word being the tokens
\* between two blanks; two blanks in a row hold the word '', and '' gives
\* [''].  The words of a text are those of its halves, the last word of the
\* first half and the first word of the second being one word.
splitHalves(first, second) ==
    SubSeq(first, 1, Len(first) - 1)
    \o <<first[Len(first)] \o second[1]>>
    \o SubSeq(second, 2, Len(second))

RECURSIVE split(_)
split(text) ==
    With(text, LAMBDA t :
        IF Len(t) = 0 THEN <<"">>
        ELSE IF Len(t) = 1 THEN (IF IsBlank(t[1]) THEN <<"", "">> ELSE <<t[1]>>)
        ELSE With(<<split(SubSeq(t, 1, Len(t) \div 2)),
                    split(SubSeq(t, Len(t) \div 2 + 1, Len(t)))>>,
                  LAMBDA halves : splitHalves(halves[1], halves[2])))

\* texts.join(' ')
join(texts) ==
    Concat([i \in 1..(2 * Len(texts) - 1) |->
               IF i % 2 = 1 THEN texts[(i + 1) \div 2] ELSE <<" ">>], <<>>)

\* split(' ').filter(w => w.length > 2)
longWords(text) == SelectSeq(split(text), LAMBDA w : Len(w) > 2)

\* words.indexOf(word), from 1; the word is in words.
indexOf(words, word) ==
    CHOOSE i \in DOMAIN words :
        words[i] = word /\ \A j \in 1..(i - 1) : words[j] # word

\* ---- ParagraphMatcher ----
getPhrases(words, length) ==
    [i \in 1..Max(0, Len(words) - length + 1) |->
        SubSeq(words, i, i + length - 1)]

exactPhraseMatching(text1, text2) ==
    With(longWords(text1), LAMBDA words1 :
    With(longWords(text2), LAMBDA words2 :
    With(getPhrases(words1, 2) \o getPhrases(words1, 3), LAMBDA phrases1 :
    With(ToSet(getPhrases(words2, 2)) \cup ToSet(getPhrases(words2, 3)),
         LAMBDA phraseSet2 :
        IF Len(words1) = 0 \/ Len(words2) = 0 THEN 0
        ELSE IF Len(phrases1) > 0
        THEN Ratio(Len(SelectSeq(phrases1, LAMBDA phrase : phrase \in phraseSet2)),
                   Len(phrases1))
        ELSE 0))))

RECURSIVE lcsLength(_, _, _, _)
lcsLength(arr1, arr2, i, j) ==
    IF i = 0 \/ j = 0 THEN 0
    ELSE IF arr1[i] = arr2[j] THEN lcsLength(arr1, arr2, i - 1, j - 1) + 1
    ELSE Max(lcsLength(arr1, arr2, i - 1, j), lcsLength(arr1, arr2, i, j - 1))

longestCommonSubsequence(text1, text2) ==
    With(split(text1), LAMBDA words1 :
    With(split(text2), LAMBDA words2 :
        Ratio(lcsLength(words1, words2, Len(words1), Len(words2)),
              Max(Len(words1), Len(words2)))))

\* The test of the loop of wordOrderSimilarity: the order of two
\* neighbours of commonWords is the same in both texts.
orderPreserved(words1, words2, word, nextWord) ==
    (indexOf(words1, word) < indexOf(words1, nextWord))
    = (indexOf(words2, word) < indexOf(words2, nextWord))

wordOrderSimilarity(text1, text2) ==
    With(longWords(text1), LAMBDA words1 :
    With(longWords(text2), LAMBDA words2 :
    With(SelectSeq(words1, LAMBDA word : word \in ToSet(words2)),
         LAMBDA commonWords :
        IF Len(words1) = 0 \/ Len(words2) = 0 THEN 0
        ELSE IF Len(commonWords) = 0 THEN 0
        ELSE IF Len(commonWords) - 1 > 0
        THEN Ratio(Cardinality({i \in 1..(Len(commonWords) - 1) :
                                  orderPreserved(words1, words2, commonWords[i],
                                                 commonWords[i + 1])}),
                   Len(commonWords) - 1)
        ELSE 0)))

\* Math.min(word.length / 3, 3), in thirds.
wordWeight(word) == Min(Len(word), 9)

calculateTotalWeight(words) ==
    Sum([i \in DOMAIN words |-> wordWeight(words[i])])

calculateWeightedOverlap(words1, words2) ==
    calculateTotalWeight(SelectSeq(words1, LAMBDA word : word \in ToSet(words2)))

semanticSimilarity(text1, text2) ==
    With(longWords(text1), LAMBDA words1 :
    With(longWords(text2), LAMBDA words2 :
    With(Max(calculateTotalWeight(words1), calculateTotalWeight(words2)),
         LAMBDA totalWeight :
        IF Len(words1) = 0 \/ Len(words2) = 0 THEN 0
        ELSE IF totalWeight > 0
             THEN Ratio(calculateWeightedOverlap(words1, words2), totalWeight)
             ELSE 0)))

paragraphSimilarity(text1, text2) ==
    With(normalizeText(text1), LAMBDA normalized1 :
    With(normalizeText(text2), LAMBDA normalized2 :
        IF text1 = <<>> \/ text2 = <<>> THEN 0
        ELSE IF TextLength(trim(text1)) < 3 \/ TextLength(trim(text2)) < 3
        THEN 0
        ELSE IF normalized1 = normalized2 THEN 1000
        ELSE Min(1000, Max(0,
                (exactPhraseMatching(normalized1, normalized2) * 300
                 + longestCommonSubsequence(normalized1, normalized2) * 250
                 + wordOrderSimilarity(normalized1, normalized2) * 250
                 + semanticSimilarity(normalized1, normalized2) * 200)
                \div 1000))))

\* text.toLowerCase().includes(term.toLowerCase()), for a term of one
\* word: the term is part of a word of the text.
textIncludes(text, term) ==
    \E i \in DOMAIN text : includes(toLowerCase(text[i]), toLowerCase(term))

\* customTerms.some(term => text.toLowerCase().includes(term.toLowerCase()))
hasTerms(text, customTerms) ==
    \E t \in DOMAIN customTerms : textIncludes(text, customTerms[t])

\* text.split(' ').filter(w => w.length > 3)
contentWords(text) == SelectSeq(split(text), LAMBDA w : Len(w) > 3)

\* The flags of validateMatch, in the order it pushes them.  0 / 0 is NaN,
\* and NaN < 0.3 is false.
validateMatch(text1, text2, score, customTerms) ==
    With(<<TextLength(text1), TextLength(text2)>>, LAMBDA lengths :
    With(contentWords(text1), LAMBDA contentWords1 :
    With(contentWords(text2), LAMBDA contentWords2 :
        (IF Max(lengths[1], lengths[2]) > 0
            /\ 10 * Min(lengths[1], lengths[2]) < 3 * Max(lengths[1], lengths[2])
         THEN <<"significant_length_difference">> ELSE <<>>)
        \o (IF Len(customTerms) > 0
               /\ hasTerms(text1, customTerms) # hasTerms(text2, customTerms)
            THEN <<"custom_terms_mismatch">> ELSE <<>>)
        \o (IF score > 600
               /\ 5 * Len(SelectSeq(contentWords1,
                                    LAMBDA w : w \in ToSet(contentWords2)))
                      < Max(Len(contentWords1), 1)
            THEN <<"low_content_overlap">> ELSE <<>>))))

\* ---- DocumentMatcher ----
documentNormalizeText(text) == trim(collapseBlanks(lowerAndStrip(text)))

jaccardSimilarity(text1, text2) ==
    With(ToSet(longWords(text1)), LAMBDA tokens1 :
    With(ToSet(longWords(text2)), LAMBDA tokens2 :
        IF tokens1 = {} /\ tokens2 = {} THEN 1000
        ELSE IF tokens1 = {} \/ tokens2 = {} THEN 0
        ELSE Ratio(Cardinality(tokens1 \cap tokens2),
                   Cardinality(tokens1 \cup tokens2))))

\* createVector: the count of each word of the vocabulary.
createVector(tokens, vocabulary) ==
    [word \in vocabulary |->
        Cardinality({i \in DOMAIN tokens : tokens[i] = word})]

\* The sum over the words of vector1[word] * vector2[word]: the number of
\* the triples of a word and a count below each vector's.
SumOfProducts(vector1, vector2, words) ==
    Cardinality(UNION {{word} \X (1..vector1[word]) \X (1..vector2[word]) :
                          word \in words})

\* a / b <= c / d for whole numbers, b and d positive, by the whole parts
\* and then the remainders, so that no product leaves the number range.
RECURSIVE FractionLeq(_, _, _, _)
FractionLeq(a, b, c, d) ==
    IF a \div b # c \div d THEN a \div b < c \div d
    ELSE IF a % b = 0 THEN TRUE
    ELSE IF c % d = 0 THEN FALSE
    ELSE FractionLeq(d, c % d, b, a % b)

\* The whole part of 1000 * dotProduct / sqrt(square1 * square2).
RECURSIVE RatioToRootIn(_, _, _, _, _)
RatioToRootIn(low, high, dotProduct, square1, square2) ==
    IF low = high THEN low
    ELSE With((low + high + 1) \div 2, LAMBDA r :
            IF FractionLeq(r * r, 1000000, dotProduct * dotProduct,
                           square1 * square2)
            THEN RatioToRootIn(r, high, dotProduct, square1, square2)
            ELSE RatioToRootIn(low, r - 1, dotProduct, square1, square2))

RatioToRoot(dotProduct, square1, square2) ==
    With(<<dotProduct, square1, square2>>, LAMBDA n :
        RatioToRootIn(0, 1000, n[1], n[2], n[3]))

\* dotProduct / (magnitude1 * magnitude2), the magnitudes being the roots
\* of the sums of squares.
cosineOfVectors(vector1, vector2, vocab) ==
    RatioToRoot(SumOfProducts(vector1, vector2, vocab),
                SumOfProducts(vector1, vector1, vocab),
                SumOfProducts(vector2, vector2, vocab))

cosineSimilarity(text1, text2) ==
    With(<<longWords(text1), longWords(text2)>>, LAMBDA tokens :
        IF Len(tokens[1]) = 0 \/ Len(tokens[2]) = 0 THEN 0
        ELSE With(ToSet(tokens[1]) \cup ToSet(tokens[2]), LAMBDA vocab :
                cosineOfVectors(createVector(tokens[1], vocab),
                                createVector(tokens[2], vocab), vocab)))

lengthSimilarity(text1, text2) ==
    With(TextLength(text1), LAMBDA len1 :
    With(TextLength(text2), LAMBDA len2 :
        IF len1 = 0 /\ len2 = 0 THEN 1000
        ELSE IF len1 = 0 \/ len2 = 0 THEN 0
        ELSE Ratio(Min(len1, len2), Max(len1, len2))))

\* text.split(/\n\s*\n/).filter(p => p.trim().length > 0).length: the texts
\* of the model hold no line break.
paragraphCount(text) == IF trim(text) = <<>> THEN 0 ELSE 1

\* text.split(/[.!?]+/).filter(s => s.trim().length > 0).length: "cause."
\* is a word and a full stop.
sentenceCount(text) ==
    With({i \in DOMAIN text : text[i] = "cause."}, LAMBDA stops :
        Cardinality(stops)
        + (IF \E i \in DOMAIN text :
                 ~IsBlank(text[i]) /\ \A stop \in stops : stop < i
           THEN 1 ELSE 0))

\* The ratio of two counts, 0 unless both are positive.
countRatio(count1, count2) ==
    IF count1 > 0 /\ count2 > 0
    THEN Ratio(Min(count1, count2), Max(count1, count2))
    ELSE 0

structuralSimilarity(text1, text2) ==
    With(paragraphCount(text1), LAMBDA paragraphs1 :
    With(paragraphCount(text2), LAMBDA paragraphs2 :
    With(sentenceCount(text1), LAMBDA sentences1 :
    With(sentenceCount(text2), LAMBDA sentences2 :
        (countRatio(paragraphs1, paragraphs2)
         + countRatio(sentences1, sentences2)) \div 2))))

documentSimilarity(text1, text2) ==
    With(documentNormalizeText(text1), LAMBDA normalized1 :
    With(documentNormalizeText(text2), LAMBDA normalized2 :
        Min(1000, Max(0,
            (jaccardSimilarity(normalized1, normalized2) * 250
             + cosineSimilarity(normalized1, normalized2) * 250
             + lengthSimilarity(text1, text2) * 250
             + structuralSimilarity(text1, text2) * 250) \div 1000))))

\* extractTitle: a filename is the sequence of its tokens, the extension
\* being the last one.
dropExtension(filename) ==
    IF filename # <<>>
       /\ toLowerCase(filename[Len(filename)]) \in {".pdf", ".xml"}
    THEN SubSeq(filename, 1, Len(filename) - 1)
    ELSE filename

dashesToBlanks(text) ==
    [i \in DOMAIN text |-> IF text[i] \in {"-", "_"} THEN " " ELSE text[i]]

lowerCase(text) == [i \in DOMAIN text |-> toLowerCase(text[i])]

extractTitle(filename) ==
    trim(collapseBlanks(lowerCase(dashesToBlanks(dropExtension(filename)))))

titleMatches(word) ==
    CASE word \in {"oraciones", "meditaciones"} -> {"prayers", "meditations"}
      [] word \in {"prayers", "meditations"} -> {"oraciones", "meditaciones"}
      [] word = "tablas" -> {"tablets"}
      [] word = "tablets" -> {"tablas"}
      [] word = "palabras" -> {"words"}
      [] word = "words" -> {"palabras"}
      [] word = "ocultas" -> {"hidden"}
      [] word = "hidden" -> {"ocultas"}
      [] word = "valle" -> {"valley"}
      [] word = "valles" -> {"valley", "valleys"}
      [] word = "valley" -> {"valle", "valles"}
      [] word = "valleys" -> {"valles"}
      [] word = "escritos" -> {"writings", "gleanings"}
      [] word \in {"writings", "gleanings"} -> {"escritos"}
      [] word = "llamado" -> {"call", "summons"}
      [] word \in {"call", "summons"} -> {"llamado"}
      [] word = "naciones" -> {"nations"}
      [] word = "nations" -> {"naciones"}
      [] word \in {"bahaullah", "abdul", "baha", "bab"} -> {word}
      [] OTHER -> {}

calculateDocumentMatchByTitle(pdfFilename, xmlFilename) ==
    With(split(extractTitle(pdfFilename)), LAMBDA pdfWords :
    With(split(extractTitle(xmlFilename)), LAMBDA xmlWords :
        Ratio(2 * Len(SelectSeq(pdfWords, LAMBDA pdfWord :
                        \/ pdfWord \in ToSet(xmlWords)
                        \/ titleMatches(pdfWord) \cap ToSet(xmlWords) # {})),
              Len(pdfWords) + Len(xmlWords))))

\* The bad mutation of rejectMatch: the record is deleted.
deletedMatch(store, matchId) ==
    [database |-> [store.database EXCEPT !.paragraph_matches =
                      SelectSeq(@, LAMBDA r : r.id # matchId)],
     nextId |-> store.nextId]

(***************************************************************************)
(* The pipeline manager on the store.  A store is the module state of the  *)
(* database: the tables and the id counter.                                *)
(***************************************************************************)
NewStore == [database |-> EmptyDatabase, nextId |-> 1]

\* runQuery: the store after the statement.  A DELETE that throws leaves
\* the store as it is.
runQuery(store, sql, params) ==
    With(store, LAMBDA s :
        CASE Parsed[sql].firstWord = "INSERT" ->
                [database |-> handleInsert(s.database, s.nextId, sql, params),
                 nextId |-> s.nextId + 1]
          [] Parsed[sql].firstWord = "UPDATE" ->
                [database |-> handleUpdate(s.database, sql, params),
                 nextId |-> s.nextId]
          [] Parsed[sql].firstWord = "DELETE" ->
                IF deleteThrows(sql) THEN s
                ELSE [database |-> handleDelete(s.database, sql, params),
                      nextId |-> s.nextId])

\* result.lastID of an INSERT run on the store.
lastID(store) == store.nextId

\* matchId is the string of the route's path; the store compares it
\* loosely.
approveMatch(store, matchId) ==
    runQuery(store, SqlApproveMatch, <<Str(ToString(matchId))>>)

rejectMatch(store, matchId) ==
    runQuery(store, SqlRejectMatch, <<Str(ToString(matchId))>>)

updateDocumentStatus(store, documentId, status) ==
    runQuery(store, SqlUpdateDocumentStatus, <<Str(status), Num(documentId)>>)

createJob(store, jobType, description) ==
    runQuery(store, SqlCreateJob, <<Str(jobType), Str(description)>>)

updateJobStatus(store, jobId, status, errorMessage) ==
    runQuery(store, SqlUpdateJobStatus, <<Str(status), errorMessage, Num(jobId)>>)

updateJobProgress(store, jobId, progress, total) ==
    runQuery(store, SqlUpdateJobProgress, <<Num(progress), Num(total), Num(jobId)>>)

(***************************************************************************)
(* The files the pipeline reads.  A PDF is known by what the extractor     *)
(* returns for it: blocks of more than 10 characters and a language.  An   *)
(* XML file is its document tree.                                          *)
(***************************************************************************)
BlockServe == <<"God", " ", "serve", " ", "thy", " ", "cause.">>
BlockThy == <<"God", " ", "thy", " ", "cause", " ", "serve">>
BlockDios == <<"oh", " ", "dios", " ", "concedeme">>
BlockGod == <<"god", " ", "god", " ", "god", " ", "oh", " ", "concedeme">>
UnitCause == <<"thy", " ", "cause", " ", "god">>
UnitServe == <<"serve", " ", "thy", " ", "cause">>

Paragraph(text) == Element("p", Attrs("", ""), <<TextNode(text)>>)

UploadedPdfFiles ==
    {[path |-> "uploads/1-las-palabras-ocultas.pdf",
      filename |-> <<"las", "-", "palabras", "-", "ocultas", ".pdf">>,
      textBlocks |-> <<BlockServe, BlockThy, BlockDios>>, language |-> "en"],
     [path |-> "uploads/2-oraciones.pdf", filename |-> <<"oraciones", ".pdf">>,
      textBlocks |-> <<BlockGod>>, language |-> "en"]}

\* The files of the input_pdfs directory, in readdir's order: a copy of the
\* same PDF.
InputPdfFiles ==
    <<[path |-> "input_pdfs/las-palabras-ocultas.pdf",
       filename |-> <<"las", "-", "palabras", "-", "ocultas", ".pdf">>,
       textBlocks |-> <<BlockServe, BlockThy, BlockDios>>, language |-> "en"]>>

PdfFiles ==
    UploadedPdfFiles \cup {InputPdfFiles[i] : i \in DOMAIN InputPdfFiles}

XmlFiles ==
    {[path |-> "ref_xml/bahaullah/Hidden_Words.xml", author |-> "bahaullah",
      filename |-> <<"Hidden", "_", "Words", ".xml">>,
      document |-> Element("doc", Attrs("", ""),
                           <<Paragraph(UnitCause), Paragraph(UnitServe)>>)]}

fileAt(files, path) == CHOOSE file \in files : file.path = path

\* xmlProcessor.extractElements(path), each file read once.
ElementsOfFile == [file \in XmlFiles |-> extractElements(file.document)]

\* The loop of processPdfDocument that stores the blocks.
RECURSIVE storeTextBlocks(_, _, _, _, _)
storeTextBlocks(store, documentId, textBlocks, i, language) ==
    IF i > Len(textBlocks) THEN store
    ELSE storeTextBlocks(
            runQuery(store, SqlInsertTextBlock,
                     <<Num(documentId), Num(i - 1), Txt(textBlocks[i]),
                       Str(language)>>),
            documentId, textBlocks, i + 1, language)

\* The two reports of a failure: by the catch of the processing and again
\* by the catch of its caller.
reportFailure(store, documentId) ==
    updateDocumentStatus(updateDocumentStatus(store, documentId, "failed"),
                         documentId, "failed")

\* processPdfDocument, run to its end.  extracted tells whether
\* extractTextBlocks returns or throws.
processPdfDocument(store, documentId, extracted) ==
    With(updateDocumentStatus(store, documentId, "processing"), LAMBDA processing :
    With(getQuery(processing.database, SqlSelectDocumentById, <<Num(documentId)>>),
         LAMBDA doc :
        IF doc = <<>> \/ ~extracted
        THEN reportFailure(processing, documentId)
        ELSE With(fileAt(PdfFiles, doc[1].path), LAMBDA file :
                runQuery(storeTextBlocks(processing, documentId, file.textBlocks,
                                         1, file.language),
                         SqlCompletePdfDocument,
                         <<Str(file.language), Str("completed"),
                           Num(documentId)>>))))

addPdfDocument(store, filePath, originalName, extracted) ==
    processPdfDocument(
        runQuery(store, SqlInsertPdfDocument,
                 <<Txt(originalName), Str("pdf"), Str(filePath), Str("pending")>>),
        lastID(store), extracted)

\* What a request did with one document: the document, whether its
\* extraction returned, and whether it was a retry of a failed document.
Processed(documentId, extracted, retried) ==
    [documentId |-> documentId, extracted |-> extracted, retried |-> retried]

\* One file of the loop of initializeAndProcessInputPdfs, with the
\* processing it starts: the store afterwards and what was processed.
inputPdfProcessed(store, file, extracted) ==
    With(getQuery(store.database, SqlSelectExistingPdf,
                  <<Txt(file.filename), Str("pdf")>>),
         LAMBDA existing :
        IF existing # <<>>
        THEN IF existing[1].status = "failed"
             THEN [store |-> processPdfDocument(
                                updateDocumentStatus(store, existing[1].id,
                                                     "pending"),
                                existing[1].id, extracted),
                   processed |-> <<Processed(existing[1].id, extracted, TRUE)>>]
             ELSE [store |-> store, processed |-> <<>>]
        ELSE [store |-> addPdfDocument(store, file.path, file.filename,
                                       extracted),
              processed |-> <<Processed(lastID(store), extracted, FALSE)>>])

\* initializeAndProcessInputPdfs: the loop over the files, from file f on;
\* extractions tells, by file, whether extractTextBlocks returns.
RECURSIVE initializeAndProcessInputPdfs(_, _, _, _)
initializeAndProcessInputPdfs(sofar, files, extractions, f) ==
    With(sofar, LAMBDA done :
        IF f > Len(files) THEN done
        ELSE With(inputPdfProcessed(done.store, files[f], extractions[f]),
                  LAMBDA next :
                initializeAndProcessInputPdfs(
                    [store |-> next.store,
                     processed |-> done.processed \o next.processed],
                    files, extractions, f + 1)))

\* The loop of processXmlDocument that stores the elements.
RECURSIVE storeXmlElements(_, _, _, _)
storeXmlElements(store, documentId, elements, i) ==
    IF i > Len(elements) THEN store
    ELSE storeXmlElements(
            runQuery(store, SqlInsertXmlElement,
                     <<Num(documentId), Str(elements[i].id),
                       Txt(elements[i].text), Str(elements[i].type)>>),
            documentId, elements, i + 1)

\* processXmlDocument, run to its end; extracted tells whether
\* extractElements returns or throws.
processXmlDocument(store, documentId, extracted) ==
    With(updateDocumentStatus(store, documentId, "processing"), LAMBDA processing :
    With(getQuery(processing.database, SqlSelectDocumentById, <<Num(documentId)>>),
         LAMBDA doc :
        IF doc = <<>> \/ ~extracted
        THEN reportFailure(processing, documentId)
        ELSE With(ElementsOfFile[fileAt(XmlFiles, doc[1].path)],
                  LAMBDA elements :
                runQuery(storeXmlElements(processing, documentId, elements, 1),
                         SqlCompleteXmlDocument,
                         <<Str("completed"), Num(documentId)>>))))

\* One file of the loop of initializeXmlDocuments, with the processing it
\* starts.
initializeXmlDocument(store, file, extracted) ==
    With(getQuery(store.database, SqlSelectExistingXml,
                  <<Txt(file.filename), Str("xml"), Str(file.author)>>),
         LAMBDA existing :
        IF existing # <<>>
        THEN IF existing[1].status = "failed"
             THEN processXmlDocument(
                     updateDocumentStatus(store, existing[1].id, "pending"),
                     existing[1].id, extracted)
             ELSE store
        ELSE processXmlDocument(
                runQuery(store, SqlInsertXmlDocument,
                         <<Txt(file.filename), Str("xml"), Str(file.path),
                           Str(file.author), Str("pending")>>),
                lastID(store), extracted))

(***************************************************************************)
(* The matching jobs.  Every await of a job resolves without waiting for   *)
(* input or output (the store and the scorers are synchronous), so a job,  *)
(* once started, runs to its end before the event loop takes the next      *)
(* request.  A run is the store together with the record of what the job   *)
(* did: its scoring calls, in order, and one decision per fragment.        *)
(***************************************************************************)
MaxDocuments == 2

NewRun(store) ==
    [store |-> store, calls |-> <<>>, decisions |-> <<>>, writes |-> <<>>]

\* A run after updateJobStatus, and after updateJobProgress: the store
\* after the statement, and the write in the run's record.
statusWritten(run, jobId, status, errorMessage) ==
    With(run, LAMBDA r :
        [r EXCEPT !.store = updateJobStatus(r.store, jobId, status, errorMessage),
                  !.writes = Append(@, [column |-> "status", value |-> status,
                                        message |-> errorMessage.value])])

progressWritten(run, jobId, progress, total) ==
    With(run, LAMBDA r :
        [r EXCEPT !.store = updateJobProgress(r.store, jobId, progress, total),
                  !.writes = Append(@, [column |-> "progress", value |-> progress,
                                        message |-> total])])

\* A comparison that keeps the lower score: C6 tells it from the code's.
lowerScore(score, bestScore) == score < bestScore

\* if (score > bestScore)
betterScore(score, bestScore) == score > bestScore

\* Math.max(textScore, titleScore * 0.8)
combinedScore(textScore, titleScore) ==
    Max(textScore, (titleScore * 800) \div 1000)

documentConfidence(bestScore) ==
    IF bestScore > 600 THEN "high"
    ELSE IF bestScore > 300 THEN "medium" ELSE "low"

paragraphConfidence(bestScore) ==
    IF bestScore > 700 THEN "high"
    ELSE IF bestScore > 500 THEN "medium" ELSE "low"

\* A flag that is never set: C8 tells it from the code's.
neverReview(confidence) == FALSE

\* const needsReview = confidence === 'low'
needsReview(confidence) == confidence = "low"

\* bestMatch && bestScore > 0.1, and > 0.4 for paragraphs; <<>> is null.
overDocumentFloor(bestMatch, bestScore) == bestMatch # <<>> /\ bestScore > 100
overParagraphFloor(bestMatch, bestScore) == bestMatch # <<>> /\ bestScore > 400

textOf(records) == join([i \in DOMAIN records |-> records[i].text_content])

NoBest == [bestMatch |-> <<>>, bestScore |-> 0, calls |-> <<>>]

\* One candidate scored: the best so far and the calls, afterwards.
scored(sofar, fragment, candidate, score) ==
    [bestMatch |-> IF betterScore(score, sofar.bestScore)
                   THEN <<candidate>> ELSE sofar.bestMatch,
     bestScore |-> IF betterScore(score, sofar.bestScore)
                   THEN score ELSE sofar.bestScore,
     calls |-> Append(sofar.calls, [fragment |-> fragment.id,
                                    unit |-> candidate.id, score |-> score])]

\* What the job did for one fragment.
decision(fragment, best, found, store) ==
    [fragment |-> fragment.id,
     chosen |-> IF best.bestMatch = <<>> THEN 0 ELSE best.bestMatch[1].id,
     score |-> best.bestScore,
     inserted |-> IF found THEN lastID(store) ELSE 0]

\* The scorers are pure: a score of two texts is computed once and looked
\* up by the jobs.  The texts a job reads from text_blocks and xml_elements
\* are the blocks and units of the files, and the joined texts of up to
\* MaxDocuments documents.
BlockTexts == UNION {ToSet(file.textBlocks) : file \in PdfFiles}
UnitTexts ==
    UNION {{ElementsOfFile[file][e].text : e \in DOMAIN ElementsOfFile[file]}
           : file \in XmlFiles}
Filenames == {file.filename : file \in PdfFiles \cup XmlFiles}

Repeated(texts, copies) ==
    [i \in 1..(copies * Len(texts)) |-> texts[((i - 1) % Len(texts)) + 1]]

JoinedTexts(texts) == {join(Repeated(texts, copies)) : copies \in 0..MaxDocuments}

JoinedBlocks == UNION {JoinedTexts(file.textBlocks) : file \in PdfFiles}
JoinedUnits ==
    UNION {JoinedTexts([e \in DOMAIN ElementsOfFile[file] |->
                            ElementsOfFile[file][e].text])
           : file \in XmlFiles}

ParagraphSimilarities ==
    {<<texts[1], texts[2], paragraphSimilarity(texts[1], texts[2])>>
     : texts \in BlockTexts \X UnitTexts}

DocumentSimilarities ==
    {<<texts[1], texts[2], documentSimilarity(texts[1], texts[2])>>
     : texts \in JoinedBlocks \X JoinedUnits}

TitleMatches ==
    {<<names[1], names[2], calculateDocumentMatchByTitle(names[1], names[2])>>
     : names \in Filenames \X Filenames}

\* The score of two texts: the one computed before, if any.
scoreOf(computed, text1, text2, score) ==
    IF \E entry \in computed : entry[1] = text1 /\ entry[2] = text2
    THEN (CHOOSE entry \in computed : entry[1] = text1 /\ entry[2] = text2)[3]
    ELSE score

\* The scores of the loop over the xmls for one pdf, by candidate.  The
\* loop reads text_blocks and xml_elements, which no job writes: what it
\* reads is what the store holds when the job starts.
documentScores(db, pdf, xmls) ==
    With(textOf(allQuery(db, SqlSelectTextOfBlocks, <<Num(pdf.id)>>)),
         LAMBDA pdfText :
        [x \in DOMAIN xmls |->
            With(textOf(allQuery(db, SqlSelectTextOfElements,
                                 <<Num(xmls[x].id)>>)),
                 LAMBDA xmlText :
                combinedScore(
                    scoreOf(DocumentSimilarities, pdfText, xmlText,
                            documentSimilarity(pdfText, xmlText)),
                    scoreOf(TitleMatches, pdf.filename, xmls[x].filename,
                            calculateDocumentMatchByTitle(
                                pdf.filename, xmls[x].filename))))])

\* let bestMatch = null; let bestScore = 0; and the loop over the
\* candidates, from candidate c on.
RECURSIVE bestCandidate(_, _, _, _, _)
bestCandidate(fragment, candidates, scores, c, sofar) ==
    With(sofar, LAMBDA best :
        IF c > Len(candidates) THEN best
        ELSE bestCandidate(fragment, candidates, scores, c + 1,
                           scored(best, fragment, candidates[c], scores[c])))

\* The rest of one pass of the loop over the pdfs: the record of the
\* match, if any, and the progress.
documentMatched(run, jobId, pdf, best, processed, total) ==
    With(overDocumentFloor(best.bestMatch, best.bestScore), LAMBDA found :
    With(IF found
         THEN runQuery(run.store, SqlInsertDocumentMatch,
                 <<Num(pdf.id), Num(best.bestMatch[1].id), Num(best.bestScore),
                   Str(documentConfidence(best.bestScore)),
                   Str(needsReview(documentConfidence(best.bestScore)))>>)
         ELSE run.store,
         LAMBDA matched :
        progressWritten(
            [store |-> matched,
             calls |-> run.calls \o best.calls,
             decisions |-> Append(run.decisions,
                                  decision(pdf, best, found, run.store)),
             writes |-> run.writes],
            jobId, processed, total)))

\* The loop over the pdfs, from pdf p on.
RECURSIVE matchDocuments(_, _, _, _, _)
matchDocuments(run, jobId, pdfs, bests, p) ==
    With(run, LAMBDA r :
        IF p > Len(pdfs) THEN r
        ELSE matchDocuments(
                documentMatched(r, jobId, pdfs[p], bests[p], p, Len(pdfs)),
                jobId, pdfs, bests, p + 1))

runDocumentMatching(store, jobId) ==
    With(statusWritten(NewRun(store), jobId, "running", Null), LAMBDA running :
    With(allQuery(running.store.database, SqlSelectCompletedPdfs, <<>>),
         LAMBDA pdfs :
    With(allQuery(running.store.database, SqlSelectCompletedXmls, <<>>),
         LAMBDA xmls :
    With([p \in DOMAIN pdfs |->
            With(documentScores(running.store.database, pdfs[p], xmls),
                 LAMBDA scores :
                bestCandidate(pdfs[p], xmls, scores, 1, NoBest))],
         LAMBDA bests :
        statusWritten(
            matchDocuments(progressWritten(running, jobId, 0, Len(pdfs)),
                           jobId, pdfs, bests, 1),
            jobId, "completed", Null)))))

startDocumentMatching(store) ==
    runDocumentMatching(
        createJob(store, "document_matching", "Document-level matching"),
        lastID(store))

\* The scores of the loop over the xml elements for one text block.
paragraphScores(textBlock, xmlElements) ==
    [e \in DOMAIN xmlElements |->
        scoreOf(ParagraphSimilarities,
                textBlock.text_content, xmlElements[e].text_content,
                paragraphSimilarity(textBlock.text_content,
                                    xmlElements[e].text_content))]

\* The rest of one pass of the loop over the text blocks.
paragraphMatched(run, jobId, textBlock, best, processed, total) ==
    With(overParagraphFloor(best.bestMatch, best.bestScore), LAMBDA found :
    With(IF found
         THEN runQuery(run.store, SqlInsertParagraphMatch,
                 <<Num(textBlock.id), Num(best.bestMatch[1].id),
                   Num(best.bestScore),
                   Str(paragraphConfidence(best.bestScore)),
                   Str(needsReview(paragraphConfidence(best.bestScore)))>>)
         ELSE run.store,
         LAMBDA matched :
        progressWritten(
            [store |-> matched,
             calls |-> run.calls \o best.calls,
             decisions |-> Append(run.decisions,
                                  decision(textBlock, best, found, run.store)),
             writes |-> run.writes],
            jobId, processed, total)))

\* The loop over the text blocks, from block i on.
RECURSIVE matchParagraphs(_, _, _, _, _)
matchParagraphs(run, jobId, textBlocks, bests, i) ==
    With(run, LAMBDA r :
        IF i > Len(textBlocks) THEN r
        ELSE matchParagraphs(
                paragraphMatched(r, jobId, textBlocks[i], bests[i], i,
                                 Len(textBlocks)),
                jobId, textBlocks, bests, i + 1))

\* 'Document pair not found' is reported by the catch of
\* runParagraphMatching and again by the caller's.
runParagraphMatching(store, jobId, documentPairId) ==
    With(statusWritten(NewRun(store), jobId, "running", Null), LAMBDA running :
    With(getQuery(running.store.database, SqlSelectDocumentMatch,
                  <<Num(documentPairId)>>),
         LAMBDA match :
        IF match = <<>>
        THEN statusWritten(
                statusWritten(running, jobId, "failed",
                              Str("Document pair not found")),
                jobId, "failed", Str("Document pair not found"))
        ELSE
    With(allQuery(running.store.database, SqlSelectTextBlocks,
                  <<Num(match[1].pdf_id)>>),
         LAMBDA textBlocks :
    With(allQuery(running.store.database, SqlSelectXmlElements,
                  <<Num(match[1].xml_id)>>),
         LAMBDA xmlElements :
    With([i \in DOMAIN textBlocks |->
            With(paragraphScores(textBlocks[i], xmlElements), LAMBDA scores :
                bestCandidate(textBlocks[i], xmlElements, scores, 1, NoBest))],
         LAMBDA bests :
        statusWritten(
            matchParagraphs(
                progressWritten(running, jobId, 0, Len(textBlocks)),
                jobId, textBlocks, bests, 1),
            jobId, "completed", Null))))))

startParagraphMatching(store, documentPairId) ==
    runParagraphMatching(
        createJob(store, "paragraph_matching",
                  "Paragraph matching for pair " \o ToString(documentPairId)),
        lastID(store), documentPairId)

(***************************************************************************)
(* The XML processor as a state machine: a document is parsed, its units   *)
(* are extracted, and a translation is written into a unit's element.      *)
(***************************************************************************)
NoWrite == [written |-> FALSE]

NoRun ==
    [jobType |-> "none", jobId |-> 0, documentPairId |-> 0, matchId |-> 0,
     calls |-> <<>>,
     decisions |-> <<>>, writes |-> <<>>, processed |-> <<>>]

\* What initializeXmlDocument processed: the failed document it found, or
\* the document it registered.
xmlProcessed(store, file, extracted) ==
    With(getQuery(store.database, SqlSelectExistingXml,
                  <<Txt(file.filename), Str("xml"), Str(file.author)>>),
         LAMBDA existing :
        IF existing # <<>>
        THEN IF existing[1].status = "failed"
             THEN <<Processed(existing[1].id, extracted, TRUE)>>
             ELSE <<>>
        ELSE <<Processed(lastID(store), extracted, FALSE)>>)

\* The record of a request that processed documents.
Processing(request, processed) ==
    [NoRun EXCEPT !.jobType = request, !.processed = processed]

\* The inputs of the scorers with no score computed; <<>> stands for a
\* score not computed.
Scored(text1, text2, pdfFilename, xmlFilename) ==
    [text1 |-> text1, text2 |-> text2,
     pdfFilename |-> pdfFilename, xmlFilename |-> xmlFilename,
     document |-> <<>>, paragraph |-> <<>>, combined |-> <<>>,
     validated |-> <<>>]

NotScored == Scored(<<>>, <<>>, <<>>, <<>>)

\* A string of the extraction tool with nothing parsed from it; <<>> stands
\* for not parsed.
\* useMock is the mode of runMarker, cache the files of the marker_output
\* directory by name, extracted what the last extractTextBlocks returned.
Marker(text) ==
    [text |-> text, flat |-> <<>>, nested |-> <<>>,
     useMock |-> FALSE, cache |-> {}, extracted |-> <<>>]

NotParsed == Marker(<<>>)

\* No second extraction has run.
NotAgain == [extracted |-> FALSE, elements |-> <<>>]

InitXml ==
    /\ xmlDoc \in XmlDocs(MaxXmlNodes)
    /\ xmlUnits = <<>>
    /\ xmlExtracted = FALSE
    /\ xmlWrite = NoWrite
    /\ xmlAgain = NotAgain
    /\ scoring = NotScored
    /\ marker = NotParsed
    /\ database = EmptyDatabase
    /\ nextId = 1
    /\ lastRun = NoRun
    /\ approvals = {}

ExtractElements ==
    /\ ~xmlExtracted
    /\ xmlUnits' = extractElements(xmlDoc)
    /\ xmlExtracted' = TRUE
    /\ UNCHANGED <<xmlDoc, xmlWrite, xmlAgain, pipelineVars, scoreVars,
                   markerVars>>

\* extractElements on the same document once more.
ExtractElementsAgain ==
    /\ xmlExtracted
    /\ ~xmlAgain.extracted
    /\ xmlAgain' = [extracted |-> TRUE, elements |-> extractElements(xmlDoc)]
    /\ UNCHANGED <<xmlDoc, xmlUnits, xmlExtracted, xmlWrite, pipelineVars,
                   scoreVars, markerVars>>

UpdateElementText ==
    /\ xmlExtracted
    /\ \E u \in DOMAIN xmlUnits, newText \in Translations :
           LET element == nodeAt(xmlDoc, xmlUnits[u].where)
           IN  xmlWrite' = [written |-> TRUE,
                            unit |-> u,
                            newText |-> newText,
                            before |-> element,
                            after |-> updateElementText(element, newText),
                            again |-> FALSE,
                            afterAgain |-> element]
    /\ UNCHANGED <<xmlDoc, xmlUnits, xmlExtracted, xmlAgain, pipelineVars,
                   scoreVars, markerVars>>

\* updateElementText with the same text on the element just written.
UpdateElementTextAgain ==
    /\ xmlWrite.written
    /\ ~xmlWrite.again
    /\ xmlWrite' = [xmlWrite EXCEPT
                      !.again = TRUE,
                      !.afterAgain = updateElementText(xmlWrite.after,
                                                       xmlWrite.newText)]
    /\ UNCHANGED <<xmlDoc, xmlUnits, xmlExtracted, xmlAgain, pipelineVars,
                   scoreVars, markerVars>>

NextXml ==
    \/ ExtractElements
    \/ ExtractElementsAgain
    \/ UpdateElementText
    \/ UpdateElementTextAgain

SpecXml == InitXml /\ [][NextXml]_vars

(***************************************************************************)
(* The pipeline as a state machine: the requests the server takes, each    *)
(* run to its end.  The store starts empty.                                *)
(***************************************************************************)
MaxJobs == 3

\* The number of paragraph matches approved is at most MaxApprovals.
MaxApprovals == 1

Init ==
    /\ database = EmptyDatabase
    /\ nextId = 1
    /\ lastRun = NoRun
    /\ approvals = {}
    /\ xmlDoc = RoundTripUnit
    /\ xmlUnits = <<>>
    /\ xmlExtracted = FALSE
    /\ xmlWrite = NoWrite
    /\ xmlAgain = NotAgain
    /\ scoring = NotScored
    /\ marker = NotParsed

Store == [database |-> database, nextId |-> nextId]

\* POST /api/upload: one PDF, with its processing.
AddPdfDocument ==
    /\ Len(database.documents) < MaxDocuments
    /\ \E file \in UploadedPdfFiles, extracted \in BOOLEAN :
          \E after \in {addPdfDocument(Store, file.path, file.filename, extracted)} :
              /\ database' = after.database
              /\ nextId' = after.nextId
              /\ lastRun' = Processing("upload",
                                       <<Processed(nextId, extracted, FALSE)>>)
    /\ UNCHANGED <<xmlVars, scoreVars, markerVars, approvals>>

\* The server's start, its part for the input_pdfs directory.
InitializeAndProcessInputPdfs ==
    /\ Len(database.documents) + Len(InputPdfFiles) <= MaxDocuments
    /\ \E extractions \in [DOMAIN InputPdfFiles -> BOOLEAN] :
          \E after \in {initializeAndProcessInputPdfs(
                            [store |-> Store, processed |-> <<>>],
                            InputPdfFiles, extractions, 1)} :
              /\ database' = after.store.database
              /\ nextId' = after.store.nextId
              /\ lastRun' = Processing("input_pdfs", after.processed)
    /\ UNCHANGED <<xmlVars, scoreVars, markerVars, approvals>>

\* POST /api/initialize-xml and the server's start: one file of the directory,
\* with its processing.
InitializeXmlDocument ==
    /\ Len(database.documents) < MaxDocuments
    /\ \E file \in XmlFiles, extracted \in BOOLEAN :
          \E after \in {initializeXmlDocument(Store, file, extracted)} :
              /\ database' = after.database
              /\ nextId' = after.nextId
              /\ lastRun' = Processing("initialize_xml",
                                       xmlProcessed(Store, file, extracted))
    /\ UNCHANGED <<xmlVars, scoreVars, markerVars, approvals>>

\* POST /api/start-matching
StartDocumentMatching ==
    /\ Len(database.pipeline_jobs) < MaxJobs
    /\ \E run \in {startDocumentMatching(Store)} :
           /\ database' = run.store.database
           /\ nextId' = run.store.nextId
           /\ lastRun' = [NoRun EXCEPT !.jobType = "document_matching",
                                       !.jobId = nextId,
                                       !.calls = run.calls,
                                       !.decisions = run.decisions,
                                       !.writes = run.writes]
    /\ UNCHANGED <<xmlVars, scoreVars, markerVars, approvals>>

\* The pair id a client sends: that of the latest document match, or one
\* that names no record when there is none.
DocumentPairIds ==
    IF database.document_matches = <<>> THEN {nextId}
    ELSE {database.document_matches[Len(database.document_matches)].id}

\* POST /api/start-paragraph-matching
StartParagraphMatching ==
    /\ Len(database.pipeline_jobs) < MaxJobs
    /\ \E documentPairId \in DocumentPairIds :
          \E run \in {startParagraphMatching(Store, documentPairId)} :
              /\ database' = run.store.database
              /\ nextId' = run.store.nextId
              /\ lastRun' = [NoRun EXCEPT !.jobType = "paragraph_matching",
                                          !.jobId = nextId,
                                          !.documentPairId = documentPairId,
                                          !.calls = run.calls,
                                          !.decisions = run.decisions,
                                          !.writes = run.writes]
    /\ UNCHANGED <<xmlVars, scoreVars, markerVars, approvals>>

\* The paragraph matches with an id, in a database.
MatchesWithId(db, matchId) ==
    {db.paragraph_matches[m] :
        m \in {n \in DOMAIN db.paragraph_matches :
                  db.paragraph_matches[n].id = matchId}}

MatchIds ==
    {database.paragraph_matches[m].id : m \in DOMAIN database.paragraph_matches}

\* POST /api/review/approve/:matchId
ApproveMatch ==
    /\ \E matchId \in MatchIds :
          \E after \in {approveMatch(Store, matchId)} :
              /\ Cardinality(approvals
                             \cup MatchesWithId(after.database, matchId))
                     <= MaxApprovals
              /\ database' = after.database
              /\ nextId' = after.nextId
              /\ approvals' =
                     approvals \cup MatchesWithId(after.database, matchId)
              /\ lastRun' = [NoRun EXCEPT !.jobType = "review/approve",
                                          !.matchId = matchId]
    /\ UNCHANGED <<xmlVars, scoreVars, markerVars>>

\* POST /api/review/reject/:matchId
RejectMatch ==
    /\ \E matchId \in MatchIds :
          \E after \in {rejectMatch(Store, matchId)} :
              /\ database' = after.database
              /\ nextId' = after.nextId
              /\ lastRun' = [NoRun EXCEPT !.jobType = "review/reject",
                                          !.matchId = matchId]
    /\ UNCHANGED <<xmlVars, scoreVars, markerVars, approvals>>

\* GET /api/status: the three queries, one after the other.
getStatus(db) ==
    With(handleSelectOrdered(db, SqlSelectRecentJobs, <<>>), LAMBDA jobs :
    With(handleSelectOrdered(jobs.database, SqlCountDocuments, <<>>),
         LAMBDA documents :
    With(handleSelectOrdered(documents.database, SqlCountDocumentMatches, <<>>),
         LAMBDA matches :
        [database |-> matches.database,
         jobs |-> jobs.rows,
         documents |-> documents.rows,
         matches |-> matches.rows])))

GetStatus ==
    /\ Len(database.pipeline_jobs) > 0
    /\ database' = getStatus(database).database
    /\ lastRun' = [NoRun EXCEPT !.jobType = "status"]
    /\ UNCHANGED <<xmlVars, scoreVars, markerVars, nextId, approvals>>

\* GET /api/documents
GetDocuments ==
    /\ Len(database.documents) > 0
    /\ database' =
           handleSelectOrdered(database, SqlSelectDocuments, <<>>).database
    /\ lastRun' = [NoRun EXCEPT !.jobType = "documents"]
    /\ UNCHANGED <<xmlVars, scoreVars, markerVars, nextId, approvals>>

Next ==
    \/ AddPdfDocument
    \/ InitializeAndProcessInputPdfs
    \/ InitializeXmlDocument
    \/ StartDocumentMatching
    \/ StartParagraphMatching
    \/ ApproveMatch
    \/ RejectMatch
    \/ GetStatus
    \/ GetDocuments

Spec == Init /\ [][Next]_vars

(***************************************************************************)
(* The scorers as a state machine: two texts and two filenames are drawn,  *)
(* and each scorer is applied to them.                                     *)
(***************************************************************************)
\* The texts scored: the empty string, 'ab', 'a b c', and texts of the
\* catalogue.
ScoreTexts ==
    {<<>>, <<"ab">>, <<"a", " ", "b", " ", "c">>, BlockServe, BlockDios,
     UnitServe}

\* The PDF names scored: the catalogue's and one that carries the title in
\* both languages.
ScorePdfFilenames ==
    {file.filename : file \in PdfFiles}
    \cup {<<"hidden", "-", "words", "-", "palabras", "-", "ocultas", ".pdf">>}

ScoreXmlFilenames == {file.filename : file \in XmlFiles}

InitScore ==
    /\ scoring \in {Scored(texts[1], texts[2], names[1], names[2]) :
                      texts \in ScoreTexts \X ScoreTexts,
                      names \in ScorePdfFilenames \X ScoreXmlFilenames}
    /\ database = EmptyDatabase
    /\ nextId = 1
    /\ lastRun = NoRun
    /\ approvals = {}
    /\ xmlDoc = RoundTripUnit
    /\ xmlUnits = <<>>
    /\ xmlExtracted = FALSE
    /\ xmlWrite = NoWrite
    /\ xmlAgain = NotAgain
    /\ marker = NotParsed

\* DocumentMatcher.calculateSimilarity(text1, text2)
CalculateDocumentSimilarity ==
    /\ scoring.document = <<>>
    /\ scoring' = [scoring EXCEPT
                    !.document = <<documentSimilarity(scoring.text1, scoring.text2)>>]
    /\ UNCHANGED <<xmlVars, pipelineVars, markerVars>>

\* ParagraphMatcher.calculateSimilarity(text1, text2)
CalculateParagraphSimilarity ==
    /\ scoring.paragraph = <<>>
    /\ scoring' = [scoring EXCEPT
                    !.paragraph = <<paragraphSimilarity(scoring.text1, scoring.text2)>>]
    /\ UNCHANGED <<xmlVars, pipelineVars, markerVars>>

\* The score runDocumentMatching computes for a PDF and an XML document.
CalculateCombinedScore ==
    /\ scoring.combined = <<>>
    /\ scoring' = [scoring EXCEPT
                    !.combined =
                        <<combinedScore(
                              documentSimilarity(scoring.text1, scoring.text2),
                              calculateDocumentMatchByTitle(scoring.pdfFilename,
                                                            scoring.xmlFilename))>>]
    /\ UNCHANGED <<xmlVars, pipelineVars, markerVars>>

\* The lists of custom terms and the scores a match is validated with.
CustomTermLists == {<<>>, <<"god">>, <<"serve", "dios">>}
ValidatedScores == {500, 1000}

\* ParagraphMatcher.validateMatch(text1, text2, score, customTerms)
ValidateMatch ==
    /\ scoring.validated = <<>>
    /\ \E customTerms \in CustomTermLists, score \in ValidatedScores :
          scoring' = [scoring EXCEPT
                        !.validated =
                            <<[customTerms |-> customTerms, score |-> score,
                               flags |-> validateMatch(scoring.text1,
                                                       scoring.text2, score,
                                                       customTerms)]>>]
    /\ UNCHANGED <<xmlVars, pipelineVars, markerVars>>

NextScore ==
    \/ CalculateDocumentSimilarity
    \/ CalculateParagraphSimilarity
    \/ CalculateCombinedScore
    \/ ValidateMatch

SpecScore == InitScore /\ [][NextScore]_vars

(***************************************************************************)
(* PdfProcessor: the text blocks of the extraction tool's output.  A       *)
(* string of the tool is a token sequence in which BlankLine stands for a  *)
(* match of /\n\s*\n/.                                                     *)
(***************************************************************************)
BlankLine == "\n\n"

\* markerData: a string, or an object with a content field.
MarkerString(text) == [type |-> "string", value |-> text]
MarkerObject(content) == [type |-> "object", content |-> content]

\* markerData.split(/\n\s*\n/): the token sequences between the blank lines.
RECURSIVE splitParagraphs(_, _)
splitParagraphs(text, current) ==
    IF text = <<>> THEN <<current>>
    ELSE IF Head(text) = BlankLine
    THEN <<current>> \o splitParagraphs(Tail(text), <<>>)
    ELSE splitParagraphs(Tail(text), Append(current, Head(text)))

\* Math.floor(blockIndex / 12) + 1
estimatePageNumber(blockIndex) == (blockIndex \div 12) + 1

\* The branch of parseMarkerOutput for a string: index counts from 0 over
\* the paragraphs that are not blank.
textBlocksOfString(text) ==
    With(SelectSeq(splitParagraphs(text, <<>>),
                   LAMBDA paragraph : TextLength(trim(paragraph)) > 0),
         LAMBDA paragraphs :
        Concat([index \in DOMAIN paragraphs |->
                   IF TextLength(trim(paragraphs[index])) > 10
                   THEN <<[text |-> trim(paragraphs[index]),
                           block_index |-> index - 1,
                           page |-> estimatePageNumber(index - 1)]>>
                   ELSE <<>>], <<>>))

\* JSON.stringify of an object whose content is the empty string.
StringifiedEmptyObject == <<"{\"content\":\"\"}">>

\* A string is truthy unless it is empty.
RECURSIVE parseMarkerOutput(_)
parseMarkerOutput(markerData) ==
    IF markerData.type = "string" THEN textBlocksOfString(markerData.value)
    ELSE IF markerData.content.value # <<>>
    THEN parseMarkerOutput(markerData.content)
    ELSE <<[text |-> StringifiedEmptyObject, block_index |-> 0, page |-> 1]>>

(***************************************************************************)
(* The parser as a state machine: a string of the tool is drawn and parsed *)
(* flat and inside an object.                                              *)
(***************************************************************************)
\* The paragraphs of the strings: none, blanks, a word of two letters, and
\* texts of more than ten letters.
MarkerParagraphs == {<<>>, <<" ">>, <<"Hi">>, BlockServe, BlockDios}

MaxParagraphs == 3

\* paragraphs.join('\n\n')
joinParagraphs(paragraphs) ==
    Concat([i \in 1..(2 * Len(paragraphs) - 1) |->
               IF i % 2 = 1 THEN paragraphs[(i + 1) \div 2]
               ELSE <<BlankLine>>], <<>>)

MarkerStrings ==
    {joinParagraphs(paragraphs) :
        paragraphs \in UNION {[1..n -> MarkerParagraphs] : n \in 0..MaxParagraphs}}

\* The PDFs extracted: an upload, a file of input_pdfs of the same name,
\* and another file of input_pdfs.  content is what marker_single writes
\* for the file.
ExtractedPdfs ==
    {[dir |-> "uploads", base |-> "1-oraciones",
      content |-> joinParagraphs(<<BlockGod>>)],
     [dir |-> "input_pdfs", base |-> "1-oraciones",
      content |-> joinParagraphs(<<BlockServe, BlockDios>>)],
     [dir |-> "input_pdfs", base |-> "las-palabras-ocultas",
      content |-> joinParagraphs(<<BlockServe, BlockThy>>)]}

\* basename(pdfPath, '.pdf')
basename(pdf) == pdf.base

\* generateMockContent: a text made from the name of the file alone.
generateMockContent(pdf) ==
    joinParagraphs(<<<<"Documento", " ", "Bahai", " ", basename(pdf)>>,
                     <<"Este", " ", "es", " ", "un", " ", "texto">>>>)

\* runMarker: the mock's string, or the parsed JSON file of marker_single,
\* an object that holds the text as its content.
runMarker(pdf, useMock) ==
    IF useMock THEN MarkerString(generateMockContent(pdf))
    ELSE MarkerObject(MarkerString(pdf.content))

\* The cached outputs of a name.
cachedOutputs(cache, outputPath) == {c \in cache : c.outputPath = outputPath}

\* extractTextBlocks(pdfPath): the cache afterwards and the blocks returned.
extractTextBlocks(cache, pdf, useMock) ==
    With(cachedOutputs(cache, basename(pdf)), LAMBDA cached :
        IF cached # {}
        THEN [cache |-> cache,
              textBlocks |-> parseMarkerOutput(
                                 (CHOOSE c \in cached : TRUE).content)]
        ELSE [cache |-> cache \cup {[outputPath |-> basename(pdf),
                                     content |-> runMarker(pdf, useMock)]},
              textBlocks |-> parseMarkerOutput(runMarker(pdf, useMock))])

InitMarker ==
    /\ marker \in {[Marker(text) EXCEPT !.useMock = useMock] :
                      text \in MarkerStrings, useMock \in BOOLEAN}
    /\ scoring = NotScored
    /\ database = EmptyDatabase
    /\ nextId = 1
    /\ lastRun = NoRun
    /\ approvals = {}
    /\ xmlDoc = RoundTripUnit
    /\ xmlUnits = <<>>
    /\ xmlExtracted = FALSE
    /\ xmlWrite = NoWrite
    /\ xmlAgain = NotAgain

\* parseMarkerOutput(s)
ParseMarkerString ==
    /\ marker.flat = <<>>
    /\ marker' = [marker EXCEPT
                    !.flat = <<parseMarkerOutput(MarkerString(marker.text))>>]
    /\ UNCHANGED <<xmlVars, pipelineVars, scoreVars>>

\* parseMarkerOutput({content: s})
ParseMarkerObject ==
    /\ marker.nested = <<>>
    /\ marker' = [marker EXCEPT
                    !.nested = <<parseMarkerOutput(
                                    MarkerObject(MarkerString(marker.text)))>>]
    /\ UNCHANGED <<xmlVars, pipelineVars, scoreVars>>

\* pdfProcessor.extractTextBlocks(pdfPath)
ExtractTextBlocks ==
    /\ \E pdf \in ExtractedPdfs :
          \E after \in {extractTextBlocks(marker.cache, pdf, marker.useMock)} :
              marker' = [marker EXCEPT
                            !.cache = after.cache,
                            !.extracted = <<[pdf |-> pdf,
                                             textBlocks |-> after.textBlocks]>>]
    /\ UNCHANGED <<xmlVars, pipelineVars, scoreVars>>

NextMarker == ParseMarkerString \/ ParseMarkerObject \/ ExtractTextBlocks

SpecMarker == InitMarker /\ [][NextMarker]_vars

(***************************************************************************)
(* Properties of the matching jobs, checked under Spec.                    *)
(***************************************************************************)
DocumentRun == lastRun.jobType = "document_matching"
ParagraphRun == lastRun.jobType = "paragraph_matching"

\* The scoring calls the last job made for a fragment.
CallsFor(fragment) ==
    {c \in DOMAIN lastRun.calls : lastRun.calls[c].fragment = fragment}

DocumentsOfType(type) ==
    {database.documents[d].id :
        d \in {e \in DOMAIN database.documents :
                  database.documents[e].type = type}}

\* C4: at most one DocumentMatch per translation.  No two records of
\* document_matches name the same pdf_id.
C4_OneDocumentMatchPerTranslation ==
    \A m, n \in DOMAIN database.document_matches :
        database.document_matches[m].pdf_id = database.document_matches[n].pdf_id
            => m = n

\* C5: at most one Alignment per fragment.  No two records of
\* paragraph_matches name the same text_block_id.
C5_OneAlignmentPerFragment ==
    \A m, n \in DOMAIN database.paragraph_matches :
        database.paragraph_matches[m].text_block_id
            = database.paragraph_matches[n].text_block_id
            => m = n

\* C6: the document matcher selects the argmax.  For every translation of
\* a document-matching job, the score of its decision is at least the
\* combined score of every candidate scored for it, the chosen candidate
\* was scored with exactly that score, and the record written carries it.
C6_SelectsArgmax ==
    DocumentRun =>
        \A d \in DOMAIN lastRun.decisions :
            /\ \A c \in CallsFor(lastRun.decisions[d].fragment) :
                  lastRun.calls[c].score <= lastRun.decisions[d].score
            /\ CallsFor(lastRun.decisions[d].fragment) # {} =>
                  \E c \in CallsFor(lastRun.decisions[d].fragment) :
                      /\ lastRun.calls[c].unit = lastRun.decisions[d].chosen
                      /\ lastRun.calls[c].score = lastRun.decisions[d].score
            /\ lastRun.decisions[d].inserted # 0 =>
                  \E m \in DOMAIN database.document_matches :
                      /\ database.document_matches[m].id
                            = lastRun.decisions[d].inserted
                      /\ database.document_matches[m].pdf_id
                            = lastRun.decisions[d].fragment
                      /\ database.document_matches[m].xml_id
                            = lastRun.decisions[d].chosen
                      /\ database.document_matches[m].similarity_score
                            = lastRun.decisions[d].score

\* C6, its case: a job scored two candidates differently for one
\* translation and recorded the match.
C6_Witness ==
    /\ DocumentRun
    /\ \E d \in DOMAIN lastRun.decisions :
          /\ lastRun.decisions[d].inserted # 0
          /\ \E c1, c2 \in CallsFor(lastRun.decisions[d].fragment) :
                lastRun.calls[c1].score < lastRun.calls[c2].score

\* C7: a translation for which no candidate reference scores above the
\* hard floor gets no DocumentMatch.  (The store has no place for an
\* 'unmatched' outcome; the formula states the part about the match.)
C7_UnmatchedBelowFloor ==
    DocumentRun =>
        \A d \in DOMAIN lastRun.decisions :
            (\A c \in CallsFor(lastRun.decisions[d].fragment) :
                lastRun.calls[c].unit \in DocumentsOfType("xml")
                    => lastRun.calls[c].score <= 100)
                => lastRun.decisions[d].inserted = 0

LowMatches(table) ==
    {m \in DOMAIN database[table] : database[table][m].confidence = "low"}

\* C8: every persisted match of the lowest tier is flagged for review,
\* document matches and paragraph matches alike, and every fragment of
\* the last job whose best score is over the floor has its record.
C8_LowTierNeedsReview ==
    /\ \A table \in {"document_matches", "paragraph_matches"} :
          \A m \in LowMatches(table) : database[table][m].manual_review = TRUE
    /\ \A d \in DOMAIN lastRun.decisions :
          lastRun.decisions[d].score > (IF DocumentRun THEN 100 ELSE 400)
              => \E m \in DOMAIN database[IF DocumentRun
                                          THEN "document_matches"
                                          ELSE "paragraph_matches"] :
                    database[IF DocumentRun THEN "document_matches"
                             ELSE "paragraph_matches"][m].id
                        = lastRun.decisions[d].inserted

\* C8, its case: a match of the lowest tier has been persisted.
C8_Witness ==
    /\ ParagraphRun
    /\ LowMatches("paragraph_matches") # {}

\* C9: a fragment that finds no match is scored against a window of the
\* reference's units, never against all of them (of two or more).
C9_ScoredWithinWindow ==
    ParagraphRun =>
        \A d \in DOMAIN lastRun.decisions :
            (lastRun.decisions[d].inserted = 0
             /\ Len(database.xml_elements) >= 2)
                => {lastRun.calls[c].unit :
                       c \in CallsFor(lastRun.decisions[d].fragment)}
                   # {database.xml_elements[e].id :
                         e \in DOMAIN database.xml_elements}

\* C10: a unit matched to a fragment is never scored again, for any later
\* fragment of the same job.
C10_MatchedNeverRescored ==
    ParagraphRun =>
        \A d \in DOMAIN lastRun.decisions :
            lastRun.decisions[d].inserted # 0 =>
                \A c \in DOMAIN lastRun.calls :
                    (\E b \in CallsFor(lastRun.decisions[d].fragment) : b < c)
                    /\ lastRun.calls[c].fragment # lastRun.decisions[d].fragment
                        => lastRun.calls[c].unit # lastRun.decisions[d].chosen

\* The records of pipeline_jobs with an id.
JobsWithId(db, jobId) ==
    {j \in DOMAIN db.pipeline_jobs : db.pipeline_jobs[j].id = jobId}

\* C11: a job's persisted progress never decreases and never exceeds its
\* total, and it has advanced by one for every item the job processed.
C11_ProgressAdvances ==
    /\ [](\A j \in DOMAIN database.pipeline_jobs :
            database.pipeline_jobs[j].progress
                <= database.pipeline_jobs[j].total_items)
    /\ [](\A j \in JobsWithId(database, lastRun.jobId) :
            lastRun.decisions # <<>> =>
                database.pipeline_jobs[j].progress = Len(lastRun.decisions))
    /\ [][\A j \in DOMAIN database.pipeline_jobs :
            database'.pipeline_jobs[j].progress
                >= database.pipeline_jobs[j].progress]_vars

StatusWrites ==
    SelectSeq(lastRun.writes, LAMBDA w : w.column = "status")

\* C12: a job makes a single terminal transition.  The states written for
\* the job are running and then one terminal state, completed or failed,
\* and that write is the job's last.
C12_SingleTerminalTransition ==
    (DocumentRun \/ ParagraphRun) =>
        /\ Len(StatusWrites) = 2
        /\ StatusWrites[1].value = "running"
        /\ StatusWrites[2].value \in {"completed", "failed"}
        /\ lastRun.writes[Len(lastRun.writes)] = StatusWrites[2]

\* C13: every job that starts running reaches a terminal state.  A job runs
\* to its end before the next request is served, so between requests the
\* record of every job says completed or failed.
C13_JobsReachTerminalState ==
    \A j \in DOMAIN database.pipeline_jobs :
        database.pipeline_jobs[j].status \in {"completed", "failed"}

\* The job that ran last failed.
FailedRun ==
    /\ DocumentRun \/ ParagraphRun
    /\ StatusWrites[Len(StatusWrites)].value = "failed"

\* C14: the error message of a failed job identifies the item the job was
\* working on.  Two jobs that fail one after the other on different items
\* leave different messages.
C14_MessageIdentifiesItem ==
    [][(FailedRun /\ FailedRun'
            /\ lastRun.documentPairId # lastRun'.documentPairId)
        => StatusWrites[Len(StatusWrites)].message
               # StatusWrites'[Len(StatusWrites')].message]_vars

(***************************************************************************)
(* Properties of the registration and processing of documents.             *)
(***************************************************************************)
\* The records of documents with an id.
DocumentsWithId(db, documentId) ==
    {db.documents[d] :
        d \in {e \in DOMAIN db.documents : db.documents[e].id = documentId}}

\* The PDF documents of a name whose status is failed.
FailedPdfs(db, filename) ==
    {db.documents[d].id :
        d \in {e \in DOMAIN db.documents :
                  /\ db.documents[e].type = "pdf"
                  /\ db.documents[e].filename = filename
                  /\ db.documents[e].status = "failed"}}

ProcessedDocuments == {lastRun.processed[p] : p \in DOMAIN lastRun.processed}

\* C15: an extraction failure is not skipped silently.  The status of a
\* document whose extraction failed is failed, and a trigger of the pipeline
\* retries the failed documents of the files it goes through.
C15_FailedExtractionSurfaced ==
    /\ [](\A p \in ProcessedDocuments :
            ~p.extracted =>
                \A doc \in DocumentsWithId(database, p.documentId) :
                    doc.status = "failed")
    /\ [][lastRun'.jobType = "input_pdfs" =>
            \A f \in DOMAIN InputPdfFiles :
                \A failed \in FailedPdfs(database, InputPdfFiles[f].filename) :
                    \E p \in ProcessedDocuments' :
                        p.documentId = failed /\ p.retried]_vars

\* C16: failures do not cascade.  A request in which the extraction of a
\* document fails leaves the record of every document it did not process
\* as it was, and processes every file of its trigger.
C16_FailuresDoNotCascade ==
    [][(\E p \in ProcessedDocuments' : ~p.extracted) =>
          /\ \A d \in DOMAIN database.documents :
                (\A p \in ProcessedDocuments' :
                    p.documentId # database.documents[d].id)
                    => database'.documents[d] = database.documents[d]
          /\ lastRun'.jobType = "input_pdfs" =>
                Len(lastRun'.processed) = Len(InputPdfFiles)]_vars

\* The text blocks stored for a document under an index.
TextBlocksAt(db, documentId, index) ==
    {b \in DOMAIN db.text_blocks :
        /\ db.text_blocks[b].document_id = documentId
        /\ db.text_blocks[b].block_index = index}

\* C27: re-running the extraction of a document is idempotent.  The store
\* never holds two text blocks of one document under one index, and after a
\* trigger whose extractions return, a document that had failed before
\* holds the blocks of its file, one under each index from 0 on.
C27_ReExtractionIdempotent ==
    /\ [](\A d \in DOMAIN database.documents :
            \A b \in DOMAIN database.text_blocks :
                Cardinality(TextBlocksAt(database, database.documents[d].id,
                                         database.text_blocks[b].block_index))
                    <= 1)
    /\ [][(/\ lastRun'.jobType = "input_pdfs"
           /\ \A p \in ProcessedDocuments' : p.extracted) =>
            \A f \in DOMAIN InputPdfFiles :
                \A failed \in FailedPdfs(database, InputPdfFiles[f].filename) :
                    \A i \in 1..Len(InputPdfFiles[f].textBlocks) :
                        Cardinality(TextBlocksAt(database', failed, i - 1)) = 1]_vars

\* The ids in use in the store.
StoredIds == 1..(nextId - 1)

\* The lookups by id and by document, against the records that satisfy the
\* filter.
LookupsById ==
    \A id \in StoredIds :
        /\ allQuery(database, SqlSelectDocumentById, <<Num(id)>>)
              = SelectSeq(database.documents, LAMBDA r : r.id = id)
        /\ allQuery(database, SqlSelectDocumentMatch, <<Num(id)>>)
              = SelectSeq(database.document_matches, LAMBDA r : r.id = id)

LookupsByDocument ==
    \A id \in StoredIds :
        /\ allQuery(database, SqlSelectTextBlocks, <<Num(id)>>)
              = SelectSeq(database.text_blocks, LAMBDA r : r.document_id = id)
        /\ allQuery(database, SqlSelectXmlElements, <<Num(id)>>)
              = SelectSeq(database.xml_elements, LAMBDA r : r.document_id = id)

LookupsOfCompleted ==
    /\ allQuery(database, SqlSelectCompletedPdfs, <<>>)
          = SelectSeq(database.documents,
                      LAMBDA r : r.type = "pdf" /\ r.status = "completed")
    /\ allQuery(database, SqlSelectCompletedXmls, <<>>)
          = SelectSeq(database.documents,
                      LAMBDA r : r.type = "xml" /\ r.status = "completed")

LookupsOfExisting ==
    /\ \A file \in PdfFiles :
          allQuery(database, SqlSelectExistingPdf,
                   <<Txt(file.filename), Str("pdf")>>)
              = SelectSeq(database.documents,
                          LAMBDA r : r.filename = file.filename /\ r.type = "pdf")
    /\ \A file \in XmlFiles :
          allQuery(database, SqlSelectExistingXml,
                   <<Txt(file.filename), Str("xml"), Str(file.author)>>)
              = SelectSeq(database.documents,
                          LAMBDA r : /\ r.filename = file.filename
                                     /\ r.type = "xml"
                                     /\ r.author = file.author)

\* C28: a filtered lookup returns exactly the records of its table that
\* satisfy every condition of its filter, for the filters of the pipeline:
\* by id, by document, completed documents of a type, and the document of
\* a file.
C28_FilteredLookupExact ==
    /\ LookupsById
    /\ LookupsByDocument
    /\ LookupsOfCompleted
    /\ LookupsOfExisting

\* Every record but record r of a table is in db as it is in the store.
OtherRecordsKept(db, tableName, r) ==
    \A t \in DOMAIN database :
        /\ Len(db[t]) = Len(database[t])
        /\ \A k \in DOMAIN database[t] :
              (t # tableName \/ k # r) => db[t][k] = database[t][k]

\* C29: a write is a single-entity write.  An update of the status of a
\* document, of the status of a job or of the progress of a job, addressed
\* to the id of a record, sets the columns of that record to the values
\* supplied and leaves every other record of every table as it was.
C29_SingleEntityWrite ==
    /\ \A d \in DOMAIN database.documents :
          With(updateDocumentStatus(Store, database.documents[d].id,
                                    "failed").database,
               LAMBDA db : /\ OtherRecordsKept(db, "documents", d)
                           /\ db.documents[d].status = "failed")
    /\ \A j \in DOMAIN database.pipeline_jobs :
          /\ With(updateJobStatus(Store, database.pipeline_jobs[j].id,
                                  "completed", Null).database,
                  LAMBDA db : /\ OtherRecordsKept(db, "pipeline_jobs", j)
                              /\ db.pipeline_jobs[j].status = "completed")
          /\ With(updateJobProgress(Store, database.pipeline_jobs[j].id,
                                    1, 3).database,
                  LAMBDA db : /\ OtherRecordsKept(db, "pipeline_jobs", j)
                              /\ db.pipeline_jobs[j].progress = 1
                              /\ db.pipeline_jobs[j].total_items = 3)

\* C30: the rule of the first pass.  For each text block of a paragraph
\* matching a match is stored if and only if the best score of its
\* candidates is at least 0.4, a best score of exactly 0.4 included.
C30_EmittedFromThreshold ==
    ParagraphRun =>
        \A d \in DOMAIN lastRun.decisions :
            (lastRun.decisions[d].inserted # 0)
                <=> (/\ lastRun.decisions[d].chosen # 0
                     /\ lastRun.decisions[d].score >= 400)

\* C31: the cursor of an alignment run only moves forward.  Of two text
\* blocks of a paragraph matching that both got a match, the later block
\* is matched to a later unit: the ids of xml_elements grow in document
\* order, so no unit is matched twice and none before an earlier match.
C31_CursorMovesForward ==
    ParagraphRun =>
        \A d, e \in DOMAIN lastRun.decisions :
            (/\ d < e
             /\ lastRun.decisions[d].inserted # 0
             /\ lastRun.decisions[e].inserted # 0)
                => lastRun.decisions[d].chosen < lastRun.decisions[e].chosen

C23_WriteIdempotent ==
    (xmlWrite.written /\ xmlWrite.again) =>
        xmlWrite.afterAgain = xmlWrite.after

\* C23, its case: a text was written twice into a unit with a formatting
\* child and two text nodes or more.
C23_Witness ==
    /\ xmlWrite.written
    /\ xmlWrite.again
    /\ hasFormattingChildren(xmlWrite.before)
    /\ Len(getTextNodes(xmlWrite.before)) >= 2

\* C35: after updateElementText on a unit, the text of the unit, its text
\* nodes put together in document order, is the text written: nothing of
\* the original text is left and nothing of the new text is lost, with
\* formatting children and without.
C35_FlattenedTextIsWritten ==
    xmlWrite.written => getTextContent(xmlWrite.after) = xmlWrite.newText

\* C35, its case: a text was written into a unit with a formatting child
\* and text in two text nodes or more.
C35_Witness ==
    /\ xmlWrite.written
    /\ hasFormattingChildren(xmlWrite.before)
    /\ \E i, j \in DOMAIN getTextNodes(xmlWrite.before) :
          /\ i < j
          /\ getTextNodes(xmlWrite.before)[i].nodeValue # <<>>
          /\ getTextNodes(xmlWrite.before)[j].nodeValue # <<>>
    /\ getTextContent(xmlWrite.before) # xmlWrite.newText

\* C35, its other case: a text was written into a unit without formatting
\* children that holds an element.
C35_WitnessPlain ==
    /\ xmlWrite.written
    /\ ~hasFormattingChildren(xmlWrite.before)
    /\ \E i \in DOMAIN xmlWrite.before.childNodes :
          xmlWrite.before.childNodes[i].nodeType = 1

\* C33: the ids of the units of a document are unique.  Two units that
\* extractElements returns for different elements never have the same id.
C33_UnitIdsUnique ==
    xmlExtracted =>
        \A u, v \in DOMAIN xmlUnits :
            xmlUnits[u].id = xmlUnits[v].id => u = v

\* C34: a unit is found again by its id.  For every unit extractElements
\* returns, findElementById with the id of the unit returns the element
\* the unit was extracted from, for a declared id and for a generated one.
C34_ExtractedUnitLocated ==
    xmlExtracted =>
        \A u \in DOMAIN xmlUnits :
            findElementById(xmlDoc, xmlUnits[u].id) = <<xmlUnits[u].where>>

\* The units with a declared id are found.
DeclaredIdsLocated ==
    xmlExtracted =>
        \A u \in DOMAIN xmlUnits :
            nodeAt(xmlDoc, xmlUnits[u].where).attributes.id # ""
                => findElementById(xmlDoc, xmlUnits[u].id) = <<xmlUnits[u].where>>

(***************************************************************************)
(* Properties of the scorers, checked under SpecScore.                     *)
(***************************************************************************)
\* The scores computed so far by the two calculateSimilarity.
SimilarityScores == scoring.document \o scoring.paragraph

\* C18: every score lies in [0,1].  The document-level similarity, the
\* paragraph-level similarity and the combined score of a document pair
\* are between 0 and 1000 thousandths.
C18_ScoresWithinUnitInterval ==
    \A s \in DOMAIN (SimilarityScores \o scoring.combined) :
        (SimilarityScores \o scoring.combined)[s] \in 0..1000

\* C19: empty-string scores.  Either scorer gives 1.0 for two empty strings
\* and 0.0 when one string of the two is empty.
C19_EmptyStringScores ==
    \A s \in DOMAIN SimilarityScores :
        /\ (scoring.text1 = <<>> /\ scoring.text2 = <<>>)
              => SimilarityScores[s] = 1000
        /\ ((scoring.text1 = <<>>) # (scoring.text2 = <<>>))
              => SimilarityScores[s] = 0

\* C20: self-similarity.  Either scorer gives 1.0 for a string and itself.
C20_SelfSimilarity ==
    scoring.text1 = scoring.text2 =>
        \A s \in DOMAIN SimilarityScores : SimilarityScores[s] = 1000

\* C21: symmetry.  The score either calculateSimilarity computed for text1
\* and text2 is the score it gives for text2 and text1.
C21_ScoreSymmetric ==
    /\ \A s \in DOMAIN scoring.document :
          scoring.document[s] = documentSimilarity(scoring.text2, scoring.text1)
    /\ \A s \in DOMAIN scoring.paragraph :
          scoring.paragraph[s]
              = paragraphSimilarity(scoring.text2, scoring.text1)

\* C25: document matching pairs a translation with a reference.  Every
\* match the last document-matching job wrote is of a PDF document and an
\* XML document, two documents, each with status completed.
C25_PairsTranslationWithReference ==
    DocumentRun =>
        \A d \in DOMAIN lastRun.decisions :
            lastRun.decisions[d].inserted # 0 =>
                /\ lastRun.decisions[d].fragment # lastRun.decisions[d].chosen
                /\ \A pdf \in DocumentsWithId(database,
                                               lastRun.decisions[d].fragment) :
                      pdf.type = "pdf" /\ pdf.status = "completed"
                /\ \A xml \in DocumentsWithId(database,
                                               lastRun.decisions[d].chosen) :
                      xml.type = "xml" /\ xml.status = "completed"

\* C26: a reference document is created once per source file.  No two
\* records of documents have the same filename, type and author, and the
\* elements of an XML document were stored once: no two records of
\* xml_elements have the same document and element id.
C26_ReferenceCreatedOnce ==
    /\ \A d, e \in DOMAIN database.documents :
          (/\ database.documents[d].type = "xml"
           /\ database.documents[e].type = "xml"
           /\ database.documents[d].filename = database.documents[e].filename
           /\ database.documents[d].author = database.documents[e].author)
              => d = e
    /\ \A x, y \in DOMAIN database.xml_elements :
          (/\ database.xml_elements[x].document_id
                  = database.xml_elements[y].document_id
           /\ database.xml_elements[x].element_id
                  = database.xml_elements[y].element_id)
              => x = y

\* C32: the check of the custom terms.  validateMatch flags the match
\* whenever a term of the list is in one of the two texts and not in the
\* other, term by term and whatever the score, and only then.
C32_CustomTermFlagged ==
    \A v \in DOMAIN scoring.validated :
        ("custom_terms_mismatch" \in ToSet(scoring.validated[v].flags))
            <=> \E t \in DOMAIN scoring.validated[v].customTerms :
                    textIncludes(scoring.text1, scoring.validated[v].customTerms[t])
                    # textIncludes(scoring.text2,
                                   scoring.validated[v].customTerms[t])

C22_WitnessRerun ==
    /\ approvals # {}
    /\ ParagraphRun
    /\ lastRun.decisions # <<>>

\* C36: a review writes one match.  An approval of match m leaves m
\* approved and not for review and every other paragraph match as it was;
\* a rejection of m removes the record of m and no other record.
C36_ReviewWritesOneMatch ==
    [][/\ lastRun'.jobType = "review/approve" =>
            /\ Len(database'.paragraph_matches) = Len(database.paragraph_matches)
            /\ \A k \in DOMAIN database.paragraph_matches :
                  IF database.paragraph_matches[k].id = lastRun'.matchId
                  THEN /\ ToString(database'.paragraph_matches[k].approved)
                            = "TRUE"
                       /\ ToString(database'.paragraph_matches[k].manual_review)
                            = "FALSE"
                  ELSE database'.paragraph_matches[k]
                           = database.paragraph_matches[k]
       /\ lastRun'.jobType = "review/reject" =>
            database' = [database EXCEPT !.paragraph_matches =
                            SelectSeq(@, LAMBDA r : r.id # lastRun'.matchId)]]_vars

(***************************************************************************)
(* Properties of the parser of the extraction tool's output, checked under *)
(* SpecMarker.                                                             *)
(***************************************************************************)
\* C24: the fragments are the same for a flat string and for an object
\* that holds the string as its content.
C24_FlatAndNestedAgree ==
    (marker.flat # <<>> /\ marker.nested # <<>>) =>
        marker.flat = marker.nested

\* C37: the cache of the extractions never serves the content of another
\* file.  The blocks extractTextBlocks returns for a path are those of an
\* extraction of the file at that path.
C37_CacheServesOwnFile ==
    \A e \in DOMAIN marker.extracted :
        marker.extracted[e].textBlocks
            = parseMarkerOutput(runMarker(marker.extracted[e].pdf,
                                          marker.useMock))

\* C38: a read leaves the record store as it was: after GET /api/status and
\* after GET /api/documents every table holds the same records in the same
\* stored order as before the request.
C38_ReadsLeaveStore ==
    [][lastRun'.jobType \in {"status", "documents"} => database' = database]_vars

\* The part of C38 about GET /api/documents alone.
DocumentsReadLeavesStore ==
    [][lastRun'.jobType = "documents" => database' = database]_vars

\* A state after GET /api/status with two jobs stored.
StatusReadOfTwoJobs ==
    lastRun.jobType = "status" /\ Len(database.pipeline_jobs) >= 2
=============================================================================
